---------------------------- MODULE Spec2Model ----------------------------
(***************************************************************************)
(* Model of the Ethereum staking monitoring service (src/service).         *)
(*                                                                         *)
(* Spec          the engine: the slot clock get_next_slot driving the      *)
(*               loop of handle(), one step per subsystem call, an         *)
(*               uncaught exception ending the run.                        *)
(* SpecFinalized one call of process_missed_blocks_finalized.              *)
(* SpecReconcile the cursor of the finalized reconciliation over a run.    *)
(* SpecRelay     one call of process_block_proposal.                       *)
(* SpecRewards   calls of ConsensusNode.get_rewards / process_rewards.     *)
(* SpecSlashed   calls of ValidatorsSlashed.process.                       *)
(* SpecLimitedDict   a LimitedDict and its insertions.                     *)
(* SpecAttestations  one call of process_attestations.                     *)
(* SpecLiveness      process_missed_attestations and the paired analysis.   *)
(* SpecTrackers      the trackers of exited and slashed validators.        *)
(* SpecCompare       the network part of process_rewards, one call.        *)
(* SpecFuture        process_future_blocks_proposal, slot after slot.      *)
(* SpecLookAhead     the alerts of the look-ahead over a run.              *)
(* SpecActivation    calls of compute_activation_duration.                 *)
(* SpecRefresh       the data the refresh of a new epoch keeps.            *)
(* SpecBits          the decoding of one aggregation_bits value.           *)
(* SpecBlockFetch    get_header / get_block and the loop's use of them.    *)
(*                                                                         *)
(* Time is in whole seconds. Python's None is the value None.              *)
(***************************************************************************)
EXTENDS Integers, Sequences, FiniteSets, TLC

VARIABLES
    \* ---- engine: slot clock and handle() locals
    now,                                    \* time()
    pc,                                     \* position of the engine
    next_slot,                              \* get_next_slot local
    slot,                                   \* loop variable of handle
    slot_start_time_sec,                    \* loop variable of handle
    monitoring_slot_number,                 \* enumerate() index
    previous_epoch,
    last_processed_finalized_slot,
    last_missed_attestations_process_epoch,
    last_rewards_process_epoch,
    block_reward,
    potential_block,
    n_http_server_starts,                   \* calls of start_http_server
    eth_rate_set,                           \* Coingecko gauges were set
    raised,                                 \* the exception that left handle
    ran,                                    \* subsystems run in this iteration
    alerts,                                 \* messages of this iteration's reconciliation
    \* ---- engine: the beacon node and the chain
    finalized_slot,                         \* slot of the node's finalized header
    own_proposer_slots,                     \* slots whose proposer is an own key
    missed_slots,                           \* slots for which the node has no block
    \* ---- engine: observers
    previous_emitted_slot,                  \* slot emitted before the current one
    first_processed_slot,                   \* first slot >= 0 the loop processed
    missed_attestations_slots,              \* slots at which the detection was invoked
    rewards_slots,                          \* slots at which process_rewards was invoked
    detected,                               \* epoch -> dead set its detection returned
    head_missed_slots,                      \* slots that incremented n_missed_head_proposals
    head_alert_slots,                       \* slots with a messenger alert of the head detection
    \* ---- engine: attestation analyses
    own_validators_missed_attestation,
    own_validators_missed_previous_attestation,
    double_dead_indexes,                    \* result of the last paired analysis
    participation,                          \* effects of process_attestations in this iteration
    \* ---- process_missed_blocks_finalized, one call or the calls of a run
    fin,
    \* ---- process_block_proposal, one call
    relay,
    \* ---- get_rewards / process_rewards
    rew,
    \* ---- ValidatorsSlashed
    sl,
    \* ---- LimitedDict, one object
    ld,
    \* ---- process_attestations, one call, or the decoding of one value
    att,
    \* ---- get_validators_liveness / process_missed_attestations, one call
    live,
    \* ---- the trackers of exited and slashed validators, called by the refresh
    trk,
    \* ---- the network part of process_rewards, one call
    cmp,
    \* ---- process_future_blocks_proposal, calls slot after slot
    fut,
    \* ---- compute_activation_duration, one call
    act,
    \* ---- the data the refresh of a new epoch keeps, iteration after iteration
    rfr,
    \* ---- get_block / get_header and what the loop does with their answer, one call
    blk

engineVars ==
    << now, pc, next_slot, slot, slot_start_time_sec, monitoring_slot_number,
       previous_epoch, last_processed_finalized_slot,
       last_missed_attestations_process_epoch, last_rewards_process_epoch,
       block_reward, potential_block, n_http_server_starts, eth_rate_set,
       raised, ran, alerts, finalized_slot, own_proposer_slots, missed_slots,
       previous_emitted_slot, first_processed_slot, missed_attestations_slots,
       rewards_slots, detected, head_missed_slots, head_alert_slots,
       own_validators_missed_attestation, own_validators_missed_previous_attestation,
       double_dead_indexes, participation >>

vars == << engineVars, fin, relay, rew, sl, ld, att, live, trk, cmp, fut, act, rfr, blk >>

-----------------------------------------------------------------------------
(* Values and configuration *)

None == -100

SECONDS_PER_SLOT == 3

SLOTS_PER_EPOCH == 3

MISSED_BLOCK_TIMEOUT_SEC == 1

SLOT_FOR_MISSED_ATTESTATIONS_PROCESS == 1

SLOT_FOR_REWARDS_PROCESS == 2

\* genesis.data.genesis_time, as the node reports it
GenesisTime == 100

\* Bounds of the model
MaxSlot == 8

MaxDelay == 4

MaxLateness == 6

MaxFinalizedStep == 2

FinalityLag == 2

MaxRelays == 2

MaxCallSlot == 3

MaxIndex == 2

MaxCalls == 3

MaxRewardsCalls == 2

Max(a, b) == IF a >= b THEN a ELSE b

\* Python's int(x / y) for y > 0: truncation toward zero
IntDiv(x, y) == IF x >= 0 THEN x \div y ELSE -((-x) \div y)

\* math.floor(slot / SLOTS_PER_EPOCH)
EpochOf(s) == s \div SLOTS_PER_EPOCH

SlotInEpoch(s) == s % SLOTS_PER_EPOCH


-----------------------------------------------------------------------------
(* blocks.py: process_block_proposal *)

\* The value a call hands back: Python's None, or a number coef * 10^exp10
\* obtained from the relay queried with ?slot=<slot>.
NoneReward(q) == [kind |-> "None", coef |-> 0, exp10 |-> 0, slot |-> q]

\* return 0
ZeroReward(q) == [kind |-> "number", coef |-> 0, exp10 |-> 0, slot |-> q]

\* int(mevblock_data[0].get('value', 0)) / 10**18
WeiToEther(wei, q) == [kind |-> "number", coef |-> wei, exp10 |-> -18, slot |-> q]

\* What one relay answers to requests.get / raise_for_status / r.json()
RelayStatuses == {"HTTPError", "SSLError", "ConnectionError", "empty", "payload"}

WeiValues == {7, 40}

RelayOutcomes ==
    {[status |-> st, wei |-> 0] : st \in RelayStatuses \ {"payload"}}
        \cup {[status |-> "payload", wei |-> w] : w \in WeiValues}

\* 'slot' of the request: the argument, or the block's slot when the argument
\* is falsy (0 or None); a block of None has no .data
QuerySlot(slot_arg, block_slot) ==
    IF slot_arg # 0 /\ slot_arg # None THEN slot_arg ELSE block_slot

\* the for loop over MEV_RELAYS.values(), from relay number i on
RECURSIVE RelayLoop(_, _, _)
RelayLoop(outcomes, i, q) ==
    IF i > Len(outcomes)
    THEN [raised |-> "", value |-> NoneReward(q), requests |-> Len(outcomes), n_mevblocks |-> 0]
    ELSE LET o == outcomes[i] IN
         CASE o.status \in {"HTTPError", "SSLError"} -> RelayLoop(outcomes, i + 1, q)
           [] o.status = "ConnectionError" ->
                [raised |-> "ConnectionError", value |-> NoneReward(q), requests |-> i, n_mevblocks |-> 0]
           [] o.status = "payload" ->
                [raised |-> "", value |-> WeiToEther(o.wei, q), requests |-> i, n_mevblocks |-> 1]
           [] OTHER ->
                [raised |-> "", value |-> ZeroReward(q), requests |-> i, n_mevblocks |-> 0]

process_block_proposal(slot_arg, block_slot, outcomes) ==
    IF (slot_arg = 0 \/ slot_arg = None) /\ block_slot = None
    THEN [raised |-> "AttributeError", value |-> NoneReward(None), requests |-> 0, n_mevblocks |-> 0]
    ELSE RelayLoop(outcomes, 1, QuerySlot(slot_arg, block_slot))

-----------------------------------------------------------------------------
(* blocks.py: process_missed_blocks_finalized *)

ProposedMessage(s, reward) == [kind |-> "proposed", slot |-> s, reward |-> reward]

MissedMessage(s) == [kind |-> "missed", slot |-> s, reward |-> NoneReward(None)]

\* the for loop over range(last_processed_finalized_slot + 1, last_finalized_slot + 1),
\* from slot s on; acc is what the call has done so far
RECURSIVE FinalizedLoop(_, _, _, _, _, _, _)
FinalizedLoop(s, F, reward, own, missed, tg_ok, acc) ==
    IF s > F THEN acc
    ELSE LET a1 == [acc EXCEPT !.examined = Append(@, s)] IN
         IF s \notin own THEN FinalizedLoop(s + 1, F, reward, own, missed, tg_ok, a1)
         ELSE IF s \notin missed
              THEN \* get_header(slot_) succeeds
                   IF reward.kind = "None"
                   THEN [a1 EXCEPT !.raised = "TypeError"]
                   ELSE LET a2 == [a1 EXCEPT !.rewards_added = Append(@, reward),
                                              !.printed = Append(@, ProposedMessage(s, reward))] IN
                        IF ~tg_ok THEN [a2 EXCEPT !.raised = "TelegramError"]
                        ELSE FinalizedLoop(s + 1, F, reward, own, missed, tg_ok,
                                 [a2 EXCEPT !.messages = Append(@, ProposedMessage(s, reward))])
              ELSE \* NoBlockError
                   LET a2 == [a1 EXCEPT !.n_missed = @ + 1,
                                         !.printed = Append(@, MissedMessage(s))] IN
                   IF ~tg_ok THEN [a2 EXCEPT !.raised = "TelegramError"]
                   ELSE FinalizedLoop(s + 1, F, reward, own, missed, tg_ok,
                            [a2 EXCEPT !.messages = Append(@, MissedMessage(s))])

FinalizedStart ==
    [raised |-> "", examined |-> << >>, printed |-> << >>, messages |-> << >>,
     n_missed |-> 0, rewards_added |-> << >>, result |-> None]

\* a reconciliation whose range starts at the cursor itself
process_missed_blocks_finalized_from_cursor(L, cur, reward, own, missed, F, node_ok, tg_ok) ==
    IF ~(L <= cur) THEN [FinalizedStart EXCEPT !.raised = "AssertionError"]
    ELSE IF ~node_ok THEN [FinalizedStart EXCEPT !.raised = "HTTPError"]
    ELSE LET r == FinalizedLoop(L, F, reward, own, missed, tg_ok, FinalizedStart) IN
         IF r.raised # "" THEN r ELSE [r EXCEPT !.result = F]

\* L: last_processed_finalized_slot, cur: slot, F: the slot of the node's
\* finalized header, node_ok: the node answers the header and duties requests,
\* tg_ok: the messenger accepts the broadcast
process_missed_blocks_finalized(L, cur, reward, own, missed, F, node_ok, tg_ok) ==
    IF ~(L <= cur) THEN [FinalizedStart EXCEPT !.raised = "AssertionError"]
    ELSE IF ~node_ok THEN [FinalizedStart EXCEPT !.raised = "HTTPError"]
    ELSE LET r == FinalizedLoop(L + 1, F, reward, own, missed, tg_ok, FinalizedStart) IN
         IF r.raised # "" THEN r ELSE [r EXCEPT !.result = F]


-----------------------------------------------------------------------------
(* app.py: handle, and utils.py: get_next_slot *)

\* first slot of the clock
NextSlotAtStart(t) == IntDiv(t - GenesisTime, SECONDS_PER_SLOT) + 1

\* time() - genesis_time when the service starts
StartOffsets == {-7, 4, 19}

\* the node's finalized slot when the service starts: none yet, or
\* FinalityLag slots behind the first slot of the clock
InitialFinalized(t) == {0, Max(0, NextSlotAtStart(t) - FinalityLag)}

\* the slots of the proposer duties the node can be asked for
AllSlots == 0..(MaxSlot + SLOTS_PER_EPOCH)

OwnProposerChoices == {{}, {2, 5, 7} \cap AllSlots}

MissedChoices == {{}, {2, 5}}

\* every relay of MEV_RELAYS answers one way
RelayAnswers(n) == [1..n -> RelayOutcomes]

epoch == EpochOf(slot)

slot_in_epoch == SlotInEpoch(slot)

is_new_epoch == previous_epoch = None \/ previous_epoch # epoch

\* a detection that is due in every slot past the threshold
is_process_missed_attestations_every_slot ==
    slot_in_epoch >= SLOT_FOR_MISSED_ATTESTATIONS_PROCESS

is_process_missed_attestations ==
    /\ slot_in_epoch >= SLOT_FOR_MISSED_ATTESTATIONS_PROCESS
    /\ (last_missed_attestations_process_epoch = None
            \/ last_missed_attestations_process_epoch # epoch)

should_process_rewards ==
    /\ slot_in_epoch >= SLOT_FOR_REWARDS_PROCESS
    /\ (last_rewards_process_epoch = None \/ last_rewards_process_epoch # epoch)

\* proposer duties of epochs e and e + 1 of own keys, at or after the current slot
FutureOwnDuties ==
    {s \in own_proposer_slots : s >= slot /\ EpochOf(s) \in {epoch, epoch + 1}}

\* Exceptions the calls of one step can raise (none of them is caught in handle)
RefreshErrors ==
    {"BadParameter", "HTTPError", "TypeError", "ZeroDivisionError", "TelegramError"}

MissedAttestationsErrors == {"HTTPError", "TelegramError"}

RewardsErrors == {"HTTPError", "ValidationError", "ValueError", "KeyError", "TelegramError"}

FutureErrors == {"HTTPError"} \cup (IF is_new_epoch /\ FutureOwnDuties # {} THEN {"TelegramError"} ELSE {})

BlockErrors == {"HTTPError"}

AttestationsErrors == {"HTTPError", "ValueError", "StopIteration", "KeyError", "TelegramError"}

\* the requests of the head detection: duties request, slot without a duty
HeadErrors == {"HTTPError", "StopIteration"}

\* process_attestations has not run in this iteration
NoParticipation == [ran |-> FALSE, rate_set |-> FALSE, alerted |-> FALSE]

\* an exception leaves handle: the loop is over
Propagate(e) ==
    /\ pc' = "crashed"
    /\ raised' = e

InitEngine ==
    /\ now \in {GenesisTime + o : o \in StartOffsets}
    /\ pc = "start"
    /\ next_slot = None
    /\ slot = None
    /\ slot_start_time_sec = None
    /\ monitoring_slot_number = -1
    /\ previous_epoch = None
    /\ last_processed_finalized_slot = None
    /\ last_missed_attestations_process_epoch = None
    /\ last_rewards_process_epoch = None
    /\ block_reward = NoneReward(None)
    /\ potential_block = None
    /\ n_http_server_starts = 0
    /\ eth_rate_set = FALSE
    /\ raised = ""
    /\ ran = << >>
    /\ alerts = << >>
    /\ finalized_slot \in InitialFinalized(now)
    /\ own_proposer_slots \in OwnProposerChoices
    /\ missed_slots \in MissedChoices
    /\ previous_emitted_slot = None
    /\ first_processed_slot = None
    /\ missed_attestations_slots = << >>
    /\ rewards_slots = << >>
    /\ detected = << >>
    /\ head_missed_slots = << >>
    /\ head_alert_slots = << >>
    /\ own_validators_missed_attestation = {}
    /\ own_validators_missed_previous_attestation = {}
    /\ double_dead_indexes = {}
    /\ participation = NoParticipation

EngineOff ==
    /\ now = GenesisTime
    /\ pc = "off"
    /\ next_slot = None
    /\ slot = None
    /\ slot_start_time_sec = None
    /\ monitoring_slot_number = -1
    /\ previous_epoch = None
    /\ last_processed_finalized_slot = None
    /\ last_missed_attestations_process_epoch = None
    /\ last_rewards_process_epoch = None
    /\ block_reward = NoneReward(None)
    /\ potential_block = None
    /\ n_http_server_starts = 0
    /\ eth_rate_set = FALSE
    /\ raised = ""
    /\ ran = << >>
    /\ alerts = << >>
    /\ finalized_slot = 0
    /\ own_proposer_slots = {}
    /\ missed_slots = {}
    /\ previous_emitted_slot = None
    /\ first_processed_slot = None
    /\ missed_attestations_slots = << >>
    /\ rewards_slots = << >>
    /\ detected = << >>
    /\ head_missed_slots = << >>
    /\ head_alert_slots = << >>
    /\ own_validators_missed_attestation = {}
    /\ own_validators_missed_previous_attestation = {}
    /\ double_dead_indexes = {}
    /\ participation = NoParticipation

\* start time of a slot
NextSlotTimeSec(s) == GenesisTime + s * SECONDS_PER_SLOT

\* a clock that realigns to the wall clock when the loop is late
ResumedNextSlot_realign == Max(next_slot + 1, NextSlotAtStart(now))

\* next_slot += 1, when the loop asks for the next pair
ResumedNextSlot == next_slot + 1

\* get_next_slot up to its loop
GetNextSlotStart ==
    /\ pc = "start"
    /\ next_slot' = NextSlotAtStart(now)
    /\ pc' = "clock"
    /\ UNCHANGED << now, slot, slot_start_time_sec, monitoring_slot_number,
                    previous_epoch, last_processed_finalized_slot,
                    last_missed_attestations_process_epoch, last_rewards_process_epoch,
                    block_reward, potential_block, n_http_server_starts, eth_rate_set,
                    raised, ran, alerts, finalized_slot, own_proposer_slots, missed_slots,
                    previous_emitted_slot, fin, relay, rew, sl, ld, att, live, trk, cmp, fut, act, rfr, blk,
                    first_processed_slot, missed_attestations_slots, rewards_slots, detected,
                    head_missed_slots, head_alert_slots, own_validators_missed_attestation,
                    own_validators_missed_previous_attestation, double_dead_indexes,
                    participation >>

\* sleep(max(0, time_to_wait)); yield next_slot, next_slot_time_sec
GetNextSlotYield ==
    /\ pc = "clock"
    /\ next_slot <= MaxSlot
    /\ now' = Max(now, NextSlotTimeSec(next_slot))
    /\ slot' = next_slot
    /\ slot_start_time_sec' = NextSlotTimeSec(next_slot)
    /\ monitoring_slot_number' = monitoring_slot_number + 1
    /\ previous_emitted_slot' = slot
    /\ pc' = "loop"
    /\ UNCHANGED << next_slot, previous_epoch, last_processed_finalized_slot,
                    last_missed_attestations_process_epoch, last_rewards_process_epoch,
                    block_reward, potential_block, n_http_server_starts, eth_rate_set,
                    raised, ran, alerts, finalized_slot, own_proposer_slots, missed_slots, fin, relay, rew, sl,
                    ld, att, live, trk, cmp, fut, act, rfr, blk,
                    first_processed_slot, missed_attestations_slots, rewards_slots, detected,
                    head_missed_slots, head_alert_slots, own_validators_missed_attestation,
                    own_validators_missed_previous_attestation, double_dead_indexes,
                    participation >>

\* the loop asks for the next pair: next_slot += 1
GetNextSlotResume ==
    /\ pc = "resume"
    /\ next_slot' = ResumedNextSlot
    /\ pc' = "clock"
    /\ UNCHANGED << now, slot, slot_start_time_sec, monitoring_slot_number,
                    previous_epoch, last_processed_finalized_slot,
                    last_missed_attestations_process_epoch, last_rewards_process_epoch,
                    block_reward, potential_block, n_http_server_starts, eth_rate_set,
                    raised, ran, alerts, finalized_slot, own_proposer_slots, missed_slots,
                    previous_emitted_slot, fin, relay, rew, sl, ld, att, live, trk, cmp, fut, act, rfr, blk,
                    first_processed_slot, missed_attestations_slots, rewards_slots, detected,
                    head_missed_slots, head_alert_slots, own_validators_missed_attestation,
                    own_validators_missed_previous_attestation, double_dead_indexes,
                    participation >>

\* KeyboardInterrupt while the clock or the loop sleeps
Interrupt ==
    /\ pc \in {"clock", "sleep"}
    /\ pc' = "stopped"
    /\ UNCHANGED << now, next_slot, slot, slot_start_time_sec, monitoring_slot_number,
                    previous_epoch, last_processed_finalized_slot,
                    last_missed_attestations_process_epoch, last_rewards_process_epoch,
                    block_reward, potential_block, n_http_server_starts, eth_rate_set,
                    raised, ran, alerts, finalized_slot, own_proposer_slots, missed_slots,
                    previous_emitted_slot, fin, relay, rew, sl, ld, att, live, trk, cmp, fut, act, rfr, blk,
                    first_processed_slot, missed_attestations_slots, rewards_slots, detected,
                    head_missed_slots, head_alert_slots, own_validators_missed_attestation,
                    own_validators_missed_previous_attestation, double_dead_indexes,
                    participation >>


clockVars == << next_slot, slot, slot_start_time_sec, monitoring_slot_number, previous_emitted_slot >>

chainVars == << own_proposer_slots, missed_slots >>

callVars == << fin, relay, rew, sl, ld, att, live, trk, cmp, fut, act, rfr, blk >>

\* what the detection of missed attestations keeps and leaves behind
detectionVars ==
    << missed_attestations_slots, detected, own_validators_missed_attestation,
       double_dead_indexes >>

headVars == << head_missed_slots, head_alert_slots >>

\* a step of the loop body that only moves on
Step(name, to) ==
    /\ ran' = Append(ran, name)
    /\ pc' = to
    /\ raised' = raised

\* a cursor that starts one slot ahead
FirstCursor_ahead(s) == s + 1

\* if last_processed_finalized_slot is None: last_processed_finalized_slot = slot
FirstCursor(s) == s

\* if slot < 0: countdown; continue
LoopCountdown ==
    /\ pc = "loop"
    /\ slot < 0
    /\ pc' = "resume"
    /\ UNCHANGED << now, clockVars, chainVars, callVars, previous_epoch,
                    last_processed_finalized_slot, last_missed_attestations_process_epoch,
                    last_rewards_process_epoch, block_reward, potential_block,
                    n_http_server_starts, eth_rate_set, raised, ran, alerts,
                    finalized_slot,
                    first_processed_slot, detectionVars, rewards_slots, headVars,
                    own_validators_missed_previous_attestation, participation >>

\* epoch, slot_in_epoch, gauges, is_new_epoch, first value of the cursor
LoopBegin ==
    /\ pc = "loop"
    /\ slot >= 0
    /\ last_processed_finalized_slot' =
            IF last_processed_finalized_slot = None THEN FirstCursor(slot)
            ELSE last_processed_finalized_slot
    /\ ran' = << >>
    /\ alerts' = << >>
    /\ first_processed_slot' =
            IF first_processed_slot = None THEN slot ELSE first_processed_slot
    /\ pc' = IF is_new_epoch THEN "refresh" ELSE "missed_attestations"
    /\ UNCHANGED << now, clockVars, chainVars, callVars, previous_epoch,
                    last_missed_attestations_process_epoch, last_rewards_process_epoch,
                    block_reward, potential_block, n_http_server_starts, eth_rate_set,
                    raised, finalized_slot, detectionVars, rewards_slots, headVars,
                    own_validators_missed_previous_attestation, participation >>

\* if is_new_epoch: keys, validator sets, trackers, activation estimate, rates;
\* a failure of the price oracle is caught in get_eth_exchange_rate
Refresh ==
    /\ pc = "refresh"
    /\ \E oracle_ok \in BOOLEAN : eth_rate_set' = (eth_rate_set \/ oracle_ok)
    /\ Step("refresh", "missed_attestations")
    /\ UNCHANGED << now, clockVars, chainVars, callVars, previous_epoch,
                    last_processed_finalized_slot, last_missed_attestations_process_epoch,
                    last_rewards_process_epoch, block_reward, potential_block,
                    n_http_server_starts, alerts, finalized_slot,
                    first_processed_slot, detectionVars, rewards_slots, headVars,
                    own_validators_missed_previous_attestation, participation >>

RefreshRaises ==
    /\ pc = "refresh"
    /\ \E e \in RefreshErrors : Propagate(e)
    /\ UNCHANGED << now, clockVars, chainVars, callVars, previous_epoch,
                    last_processed_finalized_slot, last_missed_attestations_process_epoch,
                    last_rewards_process_epoch, block_reward, potential_block,
                    n_http_server_starts, eth_rate_set, ran, alerts, finalized_slot,
                    first_processed_slot, detectionVars, rewards_slots, headVars,
                    own_validators_missed_previous_attestation, participation >>

\* the dead sets the liveness answer of the node can give for the own keys
DeadChoices == { {}, {7, 9}, {9, 12} }

\* process_missed_attestations as the loop sees it: set() for epoch < 1,
\* else the dead indexes of the liveness answer
DeadSets(e) == IF e < 1 THEN { {} } ELSE DeadChoices

\* a paired analysis that starts with the first epoch
is_before_paired_never(e) == FALSE

\* if epoch < 2: return set()
is_before_paired(e) == e < 2

\* process_paired_missed_attestations: the set it computes
process_paired_missed_attestations(dead_indexes, previous_dead_indexes, e) ==
    IF is_before_paired(e) THEN {} ELSE dead_indexes \cap previous_dead_indexes

\* a paired analysis that is handed the dead set of the run itself
PreviousDeadAtRun_current(dead) == dead

\* the previous dead set handed to process_paired_missed_attestations
PreviousDeadAtRun(dead) == own_validators_missed_previous_attestation

\* if is_process_missed_attestations: detection, paired misses, epoch mark
MissedAttestations ==
    /\ pc = "missed_attestations"
    /\ IF is_process_missed_attestations
       THEN /\ \E dead \in DeadSets(epoch) :
                  /\ own_validators_missed_attestation' = dead
                  /\ double_dead_indexes' =
                        process_paired_missed_attestations(
                            dead, PreviousDeadAtRun(dead), epoch)
                  /\ detected' =
                        [e \in {epoch} \cup (DOMAIN detected \cap {epoch - 1}) |->
                            IF e = epoch THEN dead ELSE detected[e]]
            /\ missed_attestations_slots' = Append(missed_attestations_slots, slot)
            /\ last_missed_attestations_process_epoch' = epoch
            /\ Step("missed_attestations", "rewards")
       ELSE /\ pc' = "rewards"
            /\ UNCHANGED << last_missed_attestations_process_epoch, ran, raised,
                            detectionVars >>
    /\ UNCHANGED << now, clockVars, chainVars, callVars, previous_epoch,
                    last_processed_finalized_slot, last_rewards_process_epoch,
                    block_reward, potential_block, n_http_server_starts, eth_rate_set,
                    alerts, finalized_slot, first_processed_slot, rewards_slots,
                    headVars, own_validators_missed_previous_attestation,
                    participation >>

\* process_missed_attestations returns at once for epoch < 1
MissedAttestationsRaises ==
    /\ pc = "missed_attestations"
    /\ is_process_missed_attestations
    /\ epoch >= 1
    /\ \E e \in MissedAttestationsErrors : Propagate(e)
    /\ UNCHANGED << now, clockVars, chainVars, callVars, previous_epoch,
                    last_processed_finalized_slot, last_missed_attestations_process_epoch,
                    last_rewards_process_epoch, block_reward, potential_block,
                    n_http_server_starts, eth_rate_set, ran, alerts, finalized_slot,
                    first_processed_slot, detectionVars, rewards_slots, headVars,
                    own_validators_missed_previous_attestation, participation >>

\* if should_process_rewards: comparison, epoch mark
Rewards ==
    /\ pc = "rewards"
    /\ IF should_process_rewards
       THEN /\ last_rewards_process_epoch' = epoch
            /\ rewards_slots' = Append(rewards_slots, slot)
            /\ Step("rewards", "future")
       ELSE /\ pc' = "future"
            /\ UNCHANGED << last_rewards_process_epoch, ran, raised, rewards_slots >>
    /\ UNCHANGED << now, clockVars, chainVars, callVars, previous_epoch,
                    last_processed_finalized_slot, last_missed_attestations_process_epoch,
                    block_reward, potential_block, n_http_server_starts, eth_rate_set,
                    alerts, finalized_slot, first_processed_slot, detectionVars,
                    headVars, own_validators_missed_previous_attestation,
                    participation >>

\* process_rewards returns at once for epoch < 2
RewardsRaises ==
    /\ pc = "rewards"
    /\ should_process_rewards
    /\ epoch >= 2
    /\ \E e \in RewardsErrors : Propagate(e)
    /\ UNCHANGED << now, clockVars, chainVars, callVars, previous_epoch,
                    last_processed_finalized_slot, last_missed_attestations_process_epoch,
                    last_rewards_process_epoch, block_reward, potential_block,
                    n_http_server_starts, eth_rate_set, ran, alerts, finalized_slot,
                    first_processed_slot, detectionVars, rewards_slots, headVars,
                    own_validators_missed_previous_attestation, participation >>

\* process_future_blocks_proposal
FutureBlocks ==
    /\ pc = "future"
    /\ Step("future", "mev")
    /\ UNCHANGED << now, clockVars, chainVars, callVars, previous_epoch,
                    last_processed_finalized_slot, last_missed_attestations_process_epoch,
                    last_rewards_process_epoch, block_reward, potential_block,
                    n_http_server_starts, eth_rate_set, alerts, finalized_slot,
                    first_processed_slot, detectionVars, rewards_slots, headVars,
                    own_validators_missed_previous_attestation, participation >>

FutureBlocksRaises ==
    /\ pc = "future"
    /\ \E e \in FutureErrors : Propagate(e)
    /\ UNCHANGED << now, clockVars, chainVars, callVars, previous_epoch,
                    last_processed_finalized_slot, last_missed_attestations_process_epoch,
                    last_rewards_process_epoch, block_reward, potential_block,
                    n_http_server_starts, eth_rate_set, ran, alerts, finalized_slot,
                    first_processed_slot, detectionVars, rewards_slots, headVars,
                    own_validators_missed_previous_attestation, participation >>


\* block_reward = process_block_proposal(last_processed_finalized_slot)
MevQuery ==
    /\ pc = "mev"
    /\ \E outcomes \in RelayAnswers(MaxRelays) :
          LET r == process_block_proposal(last_processed_finalized_slot, None, outcomes) IN
          /\ r.raised = ""
          /\ block_reward' = r.value
    /\ Step("mev", "finalized")
    /\ UNCHANGED << now, clockVars, chainVars, callVars, previous_epoch,
                    last_processed_finalized_slot, last_missed_attestations_process_epoch,
                    last_rewards_process_epoch, potential_block, n_http_server_starts,
                    eth_rate_set, alerts, finalized_slot,
                    first_processed_slot, detectionVars, rewards_slots, headVars,
                    own_validators_missed_previous_attestation, participation >>

MevQueryRaises ==
    /\ pc = "mev"
    /\ \E outcomes \in RelayAnswers(MaxRelays) :
          LET r == process_block_proposal(last_processed_finalized_slot, None, outcomes) IN
          /\ r.raised # ""
          /\ Propagate(r.raised)
    /\ UNCHANGED << now, clockVars, chainVars, callVars, previous_epoch,
                    last_processed_finalized_slot, last_missed_attestations_process_epoch,
                    last_rewards_process_epoch, block_reward, potential_block,
                    n_http_server_starts, eth_rate_set, ran, alerts, finalized_slot,
                    first_processed_slot, detectionVars, rewards_slots, headVars,
                    own_validators_missed_previous_attestation, participation >>

\* what the node may report as its finalized slot at the next request: it
\* never decreases and never lies beyond the slot of the wall clock
NodeFinalized == {f \in finalized_slot..(finalized_slot + MaxFinalizedStep) : f <= slot}

\* last_processed_finalized_slot = process_missed_blocks_finalized(...)
FinalizedCall(F, node_ok, tg_ok) ==
    process_missed_blocks_finalized(last_processed_finalized_slot, slot, block_reward,
                                    own_proposer_slots, missed_slots, F, node_ok, tg_ok)

Finalized ==
    /\ pc = "finalized"
    /\ \E F \in NodeFinalized :
          LET r == FinalizedCall(F, TRUE, TRUE) IN
          /\ r.raised = ""
          /\ finalized_slot' = F
          /\ last_processed_finalized_slot' = r.result
          /\ alerts' = r.messages
    /\ Step("finalized", "sleep")
    /\ UNCHANGED << now, clockVars, chainVars, callVars, previous_epoch,
                    last_missed_attestations_process_epoch, last_rewards_process_epoch,
                    block_reward, potential_block, n_http_server_starts, eth_rate_set,
                    first_processed_slot, detectionVars, rewards_slots, headVars,
                    own_validators_missed_previous_attestation, participation >>

FinalizedRaises ==
    /\ pc = "finalized"
    /\ \E F \in NodeFinalized, node_ok \in BOOLEAN, tg_ok \in BOOLEAN :
          LET r == FinalizedCall(F, node_ok, tg_ok) IN
          /\ r.raised # ""
          /\ finalized_slot' = F
          /\ alerts' = r.messages
          /\ Propagate(r.raised)
    /\ UNCHANGED << now, clockVars, chainVars, callVars, previous_epoch,
                    last_processed_finalized_slot, last_missed_attestations_process_epoch,
                    last_rewards_process_epoch, block_reward, potential_block,
                    n_http_server_starts, eth_rate_set, ran,
                    first_processed_slot, detectionVars, rewards_slots, headVars,
                    own_validators_missed_previous_attestation, participation >>

\* a loop that does not wait before it fetches the block
BlockFetchTime_no_wait == now

\* the time sleep(max(0, delta_sec)) returns at
BlockFetchTime == Max(now, slot_start_time_sec + MISSED_BLOCK_TIMEOUT_SEC)

\* sleep(max(0, delta_sec)); d is the time the iteration's own work takes
Sleep ==
    /\ pc = "sleep"
    /\ \E d \in {0, MaxDelay} :
          /\ BlockFetchTime + d <= slot_start_time_sec + MaxLateness
          /\ now' = BlockFetchTime + d
    /\ Step("sleep", "block")
    /\ UNCHANGED << clockVars, chainVars, callVars, previous_epoch,
                    last_processed_finalized_slot, last_missed_attestations_process_epoch,
                    last_rewards_process_epoch, block_reward, potential_block,
                    n_http_server_starts, eth_rate_set, alerts,
                    finalized_slot,
                    first_processed_slot, detectionVars, rewards_slots, headVars,
                    own_validators_missed_previous_attestation, participation >>

\* an inclusion analysis that is called whatever the block fetch returned
AfterBlockFetch_always(block) == "attestations"

\* if potential_block is not None: process_attestations, else on to the head detection
AfterBlockFetch(block) == IF block = None THEN "head" ELSE "attestations"

\* get_potential_block(slot): None on NoBlockError, else the block of the slot
get_potential_block(s) == IF s \in missed_slots THEN None ELSE s

\* potential_block = cl_node.get_potential_block(slot)
Block ==
    /\ pc = "block"
    /\ potential_block' = get_potential_block(slot)
    /\ Step("block", AfterBlockFetch(get_potential_block(slot)))
    /\ UNCHANGED << now, clockVars, chainVars, callVars, previous_epoch,
                    last_processed_finalized_slot, last_missed_attestations_process_epoch,
                    last_rewards_process_epoch, block_reward, n_http_server_starts,
                    eth_rate_set, alerts, finalized_slot,
                    first_processed_slot, detectionVars, rewards_slots, headVars,
                    own_validators_missed_previous_attestation, participation >>

BlockRaises ==
    /\ pc = "block"
    /\ \E e \in BlockErrors : Propagate(e)
    /\ UNCHANGED << now, clockVars, chainVars, callVars, previous_epoch,
                    last_processed_finalized_slot, last_missed_attestations_process_epoch,
                    last_rewards_process_epoch, block_reward, potential_block,
                    n_http_server_starts, eth_rate_set, ran, alerts, finalized_slot,
                    first_processed_slot, detectionVars, rewards_slots, headVars,
                    own_validators_missed_previous_attestation, participation >>

\* what a call of process_attestations that returns leaves behind: nothing
\* for slot < 1; else the participation gauge is set when own validators had
\* a duty at the previous slot, and an alert is sent when some of them are
\* not included
ParticipationOutcomes(s) ==
    IF s < 1 THEN {[ran |-> TRUE, rate_set |-> FALSE, alerted |-> FALSE]}
    ELSE {[ran |-> TRUE, rate_set |-> FALSE, alerted |-> FALSE],
          [ran |-> TRUE, rate_set |-> TRUE, alerted |-> FALSE],
          [ran |-> TRUE, rate_set |-> TRUE, alerted |-> TRUE]}

\* process_attestations(cl_node, block, slot, own_active_idx2val, telegram)
Attestations ==
    /\ pc = "attestations"
    /\ participation' \in ParticipationOutcomes(slot)
    /\ Step("attestations", "head")
    /\ UNCHANGED << now, clockVars, chainVars, callVars, previous_epoch,
                    last_processed_finalized_slot, last_missed_attestations_process_epoch,
                    last_rewards_process_epoch, block_reward, potential_block,
                    n_http_server_starts, eth_rate_set, alerts, finalized_slot,
                    first_processed_slot, detectionVars, rewards_slots, headVars,
                    own_validators_missed_previous_attestation >>

\* process_attestations returns at once for slot < 1
AttestationsRaises ==
    /\ pc = "attestations"
    /\ slot >= 1
    /\ \E e \in AttestationsErrors : Propagate(e)
    /\ UNCHANGED << now, clockVars, chainVars, callVars, previous_epoch,
                    last_processed_finalized_slot, last_missed_attestations_process_epoch,
                    last_rewards_process_epoch, block_reward, potential_block,
                    n_http_server_starts, eth_rate_set, ran, alerts, finalized_slot,
                    first_processed_slot, detectionVars, rewards_slots, headVars,
                    own_validators_missed_previous_attestation, participation >>

\* a detection that takes every proposer for an own key
is_own_validator_any(s, own) == TRUE

\* is_own_validator = proposer_pubkey in own_pubkeys, for the proposer of slot s
is_own_validator(s, own) == s \in own

\* process_missed_blocks_head with the proposer duties at hand: the alert is
\* sent before the counter is incremented, a messenger failure leaves the call
process_missed_blocks_head(block, s, own, tg_ok) ==
    LET missed == block = None
        is_own == is_own_validator(s, own)
    IN  IF missed /\ is_own /\ ~tg_ok
        THEN [raised |-> "TelegramError", alerted |-> FALSE, inc |-> 0, result |-> is_own]
        ELSE [raised |-> "", alerted |-> missed /\ is_own,
              inc |-> IF is_own /\ missed THEN 1 ELSE 0, result |-> is_own]

\* is_own_validator = process_missed_blocks_head(cl_node, potential_block, slot, ...)
HeadMissed ==
    /\ pc = "head"
    /\ LET r == process_missed_blocks_head(potential_block, slot, own_proposer_slots, TRUE) IN
          /\ head_missed_slots' =
                IF r.inc = 1 THEN Append(head_missed_slots, slot) ELSE head_missed_slots
          /\ head_alert_slots' =
                IF r.alerted THEN Append(head_alert_slots, slot) ELSE head_alert_slots
    /\ Step("head", "tail")
    /\ UNCHANGED << now, clockVars, chainVars, callVars, previous_epoch,
                    last_processed_finalized_slot, last_missed_attestations_process_epoch,
                    last_rewards_process_epoch, block_reward, potential_block,
                    n_http_server_starts, eth_rate_set, alerts, finalized_slot,
                    first_processed_slot, detectionVars, rewards_slots,
                    own_validators_missed_previous_attestation, participation >>

HeadMissedRaises ==
    /\ pc = "head"
    /\ LET r == process_missed_blocks_head(potential_block, slot, own_proposer_slots, FALSE) IN
          \E e \in HeadErrors \cup ({r.raised} \ {""}) : Propagate(e)
    /\ UNCHANGED << now, clockVars, chainVars, callVars, previous_epoch,
                    last_processed_finalized_slot, last_missed_attestations_process_epoch,
                    last_rewards_process_epoch, block_reward, potential_block,
                    n_http_server_starts, eth_rate_set, ran, alerts, finalized_slot,
                    first_processed_slot, detectionVars, rewards_slots, headVars,
                    own_validators_missed_previous_attestation, participation >>

\* own_validators_missed_previous_attestation = own_validators_missed_attestation;
\* previous_epoch = epoch; if monitoring_slot_number == 0: start_http_server(8000)
LoopEnd ==
    /\ pc = "tail"
    /\ previous_epoch' = epoch
    /\ n_http_server_starts' =
            IF monitoring_slot_number = 0 THEN n_http_server_starts + 1
            ELSE n_http_server_starts
    /\ own_validators_missed_previous_attestation' = own_validators_missed_attestation
    /\ participation' = NoParticipation
    /\ pc' = "resume"
    /\ UNCHANGED << now, clockVars, chainVars, callVars,
                    last_processed_finalized_slot, last_missed_attestations_process_epoch,
                    last_rewards_process_epoch, block_reward, potential_block,
                    eth_rate_set, raised, ran, alerts, finalized_slot,
                    first_processed_slot, detectionVars, rewards_slots, headVars >>

NextEngine ==
    \/ GetNextSlotStart
    \/ GetNextSlotYield
    \/ GetNextSlotResume
    \/ Interrupt
    \/ LoopCountdown
    \/ LoopBegin
    \/ Refresh
    \/ RefreshRaises
    \/ MissedAttestations
    \/ MissedAttestationsRaises
    \/ Rewards
    \/ RewardsRaises
    \/ FutureBlocks
    \/ FutureBlocksRaises
    \/ MevQuery
    \/ MevQueryRaises
    \/ Finalized
    \/ FinalizedRaises
    \/ Sleep
    \/ Block
    \/ BlockRaises
    \/ Attestations
    \/ AttestationsRaises
    \/ HeadMissed
    \/ HeadMissedRaises
    \/ LoopEnd

FinIdle == fin = [pc |-> "idle"]

RelayIdle == relay = [pc |-> "idle"]

RewIdle == rew = [pc |-> "idle"]

SlIdle == sl = [pc |-> "idle"]

LdIdle == ld = [pc |-> "idle"]

AttIdle == att = [pc |-> "idle"]

LiveIdle == live = [pc |-> "idle"]

TrkIdle == trk = [pc |-> "idle"]

CmpIdle == cmp = [pc |-> "idle"]

FutIdle == fut = [pc |-> "idle"]

ActIdle == act = [pc |-> "idle"]

RfrIdle == rfr = [pc |-> "idle"]

BlkIdle == blk = [pc |-> "idle"]

LaterIdle ==
    LdIdle /\ AttIdle /\ LiveIdle /\ TrkIdle /\ CmpIdle /\ FutIdle /\ ActIdle /\ RfrIdle /\ BlkIdle

Init == InitEngine /\ FinIdle /\ RelayIdle /\ RewIdle /\ SlIdle /\ LaterIdle

Next == NextEngine

Spec == Init /\ [][Next]_vars


-----------------------------------------------------------------------------
(* Properties of the engine (Spec) *)

\* the subsystems that have run in the iteration
RanNames == {ran[i] : i \in 1..Len(ran)}

\* C1: every pair the slot clock emits has start_time = genesis_time +
\* slot * SECONDS_PER_SLOT, and every emitted slot is the previously emitted
\* slot plus one, however late the loop asks for it.
C1_ClockAlignedNoGaps ==
    slot # None =>
        /\ slot_start_time_sec = GenesisTime + slot * SECONDS_PER_SLOT
        /\ (previous_emitted_slot # None => slot = previous_emitted_slot + 1)

\* C1 witness: a pair emitted to a loop that asked for it more than a whole
\* slot after the slot had started.
C1_LateConsumerServed ==
    /\ pc = "loop"
    /\ previous_emitted_slot # None
    /\ now >= slot_start_time_sec + SECONDS_PER_SLOT

\* C31: the first slot the slot clock emits is
\* floor((now - genesis_time) / SECONDS_PER_SLOT) + 1 for every start time now,
\* the ones before genesis_time included.
C31_FirstSlotIsFloorPlusOne ==
    (pc = "clock" /\ slot = None)
        => next_slot = ((now - GenesisTime) \div SECONDS_PER_SLOT) + 1

\* C2: last_processed_finalized_slot never decreases, from its first value
\* (the first observed slot) on; the node's finalized slot never decreases here.
C2_CursorNeverDecreases ==
    [][last_processed_finalized_slot # None
          => last_processed_finalized_slot' >= last_processed_finalized_slot]_vars

\* C3: with a node that never reports a finalized slot beyond the slot being
\* processed, last_processed_finalized_slot <= slot in every state and the
\* assertion of process_missed_blocks_finalized never fails.
C3_CursorAtMostSlot ==
    /\ (last_processed_finalized_slot # None => last_processed_finalized_slot <= slot)
    /\ raised # "AssertionError"

\* C3 witness: the reconciliation has moved the cursor up to the very slot
\* being processed, in a later iteration.
C3_CursorReachesSlot ==
    /\ pc = "sleep"
    /\ monitoring_slot_number >= 2
    /\ last_processed_finalized_slot = slot

\* the operation-level errors of C4
OperationLevelErrors == {"HTTPError", "ZeroDivisionError", "ValueError", "StopIteration"}

\* C4: an operation-level error of one subsystem (beacon HTTP error, zero
\* churn, mismatched vector lengths, missing duty) does not end the loop: the
\* rest of the slot and the next slots still run.
C4_SubsystemErrorContained ==
    ~(pc = "crashed" /\ raised \in OperationLevelErrors)

\* C6: the reward reported for an own block found at slot s is the relay
\* value queried for that same slot s.
C6_RewardQueriedForBlockSlot ==
    \A i \in 1..Len(alerts) :
        alerts[i].kind = "proposed" => alerts[i].reward.slot = alerts[i].slot

\* C10: a failure of the messenger or of the price oracle never leaves the
\* subsystem that met it: the loop goes on.
C10_AlertChannelFailureSwallowed ==
    ~(pc = "crashed" /\ raised \in {"TelegramError", "CoingeckoError"})


\* no two runs of an analysis lie in the same epoch
AtMostOncePerEpoch(runs) ==
    \A i, j \in 1..Len(runs) : i # j => EpochOf(runs[i]) # EpochOf(runs[j])

\* every run lies at the first processed slot of its epoch that is past the threshold
AtFirstSlotPast(runs, threshold) ==
    \A i \in 1..Len(runs) :
        /\ SlotInEpoch(runs[i]) >= threshold
        /\ \A t \in first_processed_slot..(runs[i] - 1) :
              EpochOf(t) = EpochOf(runs[i]) => SlotInEpoch(t) < threshold

\* the processed slots whose iteration is past the step of the two analyses
SlotsPastAnalyses ==
    IF first_processed_slot = None THEN {}
    ELSE first_processed_slot..(slot - 1)
            \cup (IF pc \in {"future", "mev", "finalized", "sleep", "block",
                             "attestations", "head", "tail", "resume", "clock"}
                  THEN {slot} ELSE {})

\* every slot past the threshold whose analyses step is over has a run in its epoch
RunInEveryDueEpoch(runs, threshold) ==
    \A t \in SlotsPastAnalyses :
        SlotInEpoch(t) >= threshold
            => \E i \in 1..Len(runs) : EpochOf(runs[i]) = EpochOf(t)

\* C11: in every epoch the missed-attestation analysis and the rewards
\* analysis are each invoked at most once, only at a slot past the analysis'
\* threshold, and exactly once at the first such slot the loop processes in
\* that epoch.
C11_AnalysesOncePerEpoch ==
    /\ AtMostOncePerEpoch(missed_attestations_slots)
    /\ AtFirstSlotPast(missed_attestations_slots, SLOT_FOR_MISSED_ATTESTATIONS_PROCESS)
    /\ RunInEveryDueEpoch(missed_attestations_slots, SLOT_FOR_MISSED_ATTESTATIONS_PROCESS)
    /\ AtMostOncePerEpoch(rewards_slots)
    /\ AtFirstSlotPast(rewards_slots, SLOT_FOR_REWARDS_PROCESS)
    /\ RunInEveryDueEpoch(rewards_slots, SLOT_FOR_REWARDS_PROCESS)

\* C11 witness: a loop that started in the middle of an epoch, past both
\* thresholds, has run both analyses at its first slot and again in the next
\* epoch.
C11_MidEpochStartAnalysed ==
    /\ first_processed_slot # None
    /\ SlotInEpoch(first_processed_slot) >= SLOT_FOR_REWARDS_PROCESS
    /\ Len(missed_attestations_slots) = 2
    /\ missed_attestations_slots[1] = first_processed_slot
    /\ Len(rewards_slots) = 2
    /\ rewards_slots[1] = first_processed_slot

\* C12: after the detection run of epoch E >= 2 the paired-miss set is the
\* dead set of this run intersected with the dead set of the run of epoch
\* E - 1, and empty when no detection ran in epoch E - 1.
C12_PairedIsIntersection ==
    (epoch >= 2 /\ epoch \in DOMAIN detected)
        => double_dead_indexes =
              detected[epoch] \cap
                  (IF epoch - 1 \in DOMAIN detected THEN detected[epoch - 1] ELSE {})

\* C12 witness: previous dead set {7, 9}, current dead set {9, 12}, paired {9}.
C12_PairedNine ==
    /\ epoch >= 2
    /\ DOMAIN detected = {epoch - 1, epoch}
    /\ detected[epoch - 1] = {7, 9}
    /\ detected[epoch] = {9, 12}
    /\ double_dead_indexes = {9}
    /\ pc = "tail"

\* the place of a subsystem in the iteration
RankOf(name) ==
    CASE name = "refresh" -> 1
      [] name = "missed_attestations" -> 2
      [] name = "rewards" -> 3
      [] name = "future" -> 4
      [] name = "mev" -> 5
      [] name = "finalized" -> 6
      [] name = "sleep" -> 7
      [] name = "block" -> 8
      [] name = "attestations" -> 9
      [] name = "head" -> 10

\* C13: the subsystems of an iteration run in the order refresh (new epoch
\* only), missed attestations, rewards, look-ahead, MEV query, finalized
\* reconciliation, wait until slot start + MISSED_BLOCK_TIMEOUT_SEC, block
\* fetch, inclusion analysis, head detection; and the next slot is taken up
\* only after the iteration of the slot before it has finished.
C13_SubsystemOrder ==
    /\ \A i, j \in 1..Len(ran) : i < j => RankOf(ran[i]) < RankOf(ran[j])
    /\ pc = "block" => now >= slot_start_time_sec + MISSED_BLOCK_TIMEOUT_SEC
    /\ pc = "tail" =>
          /\ {"future", "mev", "finalized", "sleep", "block", "head"} \subseteq RanNames
          /\ is_new_epoch <=> "refresh" \in RanNames
    /\ (pc = "loop" /\ previous_emitted_slot # None /\ previous_emitted_slot >= 0)
          => /\ Len(ran) > 0
             /\ ran[Len(ran)] = "head"

\* C13 witness: an iteration of a new epoch in which every subsystem has run.
C13_FullIteration ==
    /\ pc = "tail"
    /\ ran = << "refresh", "missed_attestations", "rewards", "future", "mev",
                "finalized", "sleep", "block", "attestations", "head" >>

\* C14: the metrics server is started exactly once, at the end of the first
\* iteration that processes a slot, and never again: the server has been
\* started once exactly when such an iteration has completed, and the first
\* iteration that processes a slot is the one whose end starts it, also when
\* the slots emitted before it were negative.
C14_ServerStartedOnce ==
    /\ n_http_server_starts = IF previous_epoch # None THEN 1 ELSE 0
    /\ (/\ slot # None
        /\ slot >= 0
        /\ previous_epoch = None
        /\ pc \in {"refresh", "missed_attestations", "rewards", "future", "mev",
                   "finalized", "sleep", "block", "attestations", "head", "tail"})
          => monitoring_slot_number = 0


\* the processed slots whose head detection has returned
SlotsPastHead ==
    IF first_processed_slot = None THEN {}
    ELSE first_processed_slot..(slot - 1)
            \cup (IF pc # "loop" /\ "head" \in RanNames THEN {slot} ELSE {})

\* C16: the head detection increments n_missed_head_proposals by one and
\* sends an alert exactly for the slots whose fetched block is null and whose
\* proposer is an own key, does neither in every other case, and increments
\* the counter at most once per slot over a run.
C16_HeadMissCountedOncePerSlot ==
    /\ head_alert_slots = head_missed_slots
    /\ \A i, j \in 1..Len(head_missed_slots) :
          i # j => head_missed_slots[i] # head_missed_slots[j]
    /\ {head_missed_slots[i] : i \in 1..Len(head_missed_slots)}
          = {t \in SlotsPastHead : t \in missed_slots /\ t \in own_proposer_slots}

\* C16 witness: two slots of one run were counted, and a slot with a block
\* and a slot of a foreign proposer were passed over.
C16_TwoHeadMisses ==
    /\ Len(head_missed_slots) = 2
    /\ \E t \in SlotsPastHead : t \notin missed_slots /\ t \in own_proposer_slots
    /\ pc = "tail"

\* C17: process_attestations runs exactly in the iterations whose fetched
\* block is not null, after the block fetch that follows the wait and before
\* the head detection; with a null block no participation rate is set and
\* no inclusion alert is sent for the slot.
C17_InclusionIffBlock ==
    /\ pc \in {"head", "tail"} =>
          /\ participation.ran <=> "attestations" \in RanNames
          /\ "attestations" \in RanNames <=> potential_block # None
          /\ potential_block = None => participation = NoParticipation
    /\ \A i \in 1..Len(ran) :
          ran[i] = "attestations" =>
              /\ i > 1
              /\ ran[i - 1] = "block"
              /\ i < Len(ran) => ran[i + 1] = "head"
    /\ \A i \in 1..Len(ran) :
          ran[i] = "block" => (i > 1 /\ ran[i - 1] = "sleep")

\* C17 witness: an iteration without a block went straight to the head
\* detection, after an iteration whose block was analysed.
C17_NullBlockSkipsInclusion ==
    /\ pc = "tail"
    /\ potential_block = None
    /\ "attestations" \notin RanNames
    /\ previous_emitted_slot # None
    /\ previous_emitted_slot >= 0
    /\ previous_emitted_slot \notin missed_slots

-----------------------------------------------------------------------------
(* One call of process_missed_blocks_finalized (SpecFinalized) *)

CallSlots == 1..MaxCallSlot

InitFinalized ==
    fin \in [pc : {"call"}, L : {0, 1}, cur : {0, MaxCallSlot}, F : 0..MaxCallSlot,
             reward : {NoneReward(1), ZeroReward(1), WeiToEther(7, 1)},
             own : SUBSET CallSlots, missed : SUBSET CallSlots,
             node_ok : BOOLEAN, tg_ok : BOOLEAN, out : {FinalizedStart}]

CallProcessMissedBlocksFinalized ==
    /\ fin.pc = "call"
    /\ fin' = [fin EXCEPT !.pc = "done",
                          !.out = process_missed_blocks_finalized(
                                      fin.L, fin.cur, fin.reward, fin.own, fin.missed,
                                      fin.F, fin.node_ok, fin.tg_ok)]
    /\ UNCHANGED << engineVars, relay, rew, sl, ld, att, live, trk, cmp, fut, act, rfr, blk >>

InitFinalizedCall == InitFinalized /\ EngineOff /\ RelayIdle /\ RewIdle /\ SlIdle /\ LaterIdle

SpecFinalized == InitFinalizedCall /\ [][CallProcessMissedBlocksFinalized]_vars

\* the slots of (L, F] in increasing order
SlotsAfter(L, F) == [i \in 1..Max(0, F - L) |-> L + i]

\* the positions of a sequence of messages that are about slot s
MessagesAbout(msgs, s) == {i \in 1..Len(msgs) : msgs[i].slot = s}

\* C5: a call with cursor L <= slot and finalized slot F <= slot, with the node and
\* the messenger answering, examines exactly the slots L+1..F in increasing
\* order, emits for every examined slot with an own proposer exactly one
\* message ('proposed' when the header exists, 'missed' with one increment of
\* n_missed_finalized_proposals when the node has no block), nothing for any
\* other slot, and returns F.
C5_ReconciliationExaminesRange ==
    (fin.pc = "done" /\ fin.L <= fin.cur /\ fin.F <= fin.cur
        /\ fin.node_ok /\ fin.tg_ok) =>
        LET o == fin.out
            range == (fin.L + 1)..fin.F
        IN  /\ o.raised = ""
            /\ o.examined = SlotsAfter(fin.L, fin.F)
            /\ \A i \in 1..Len(o.messages) :
                  /\ o.messages[i].slot \in range \cap fin.own
                  /\ o.messages[i].kind =
                        IF o.messages[i].slot \in fin.missed THEN "missed" ELSE "proposed"
            /\ \A s \in range \cap fin.own :
                  Cardinality(MessagesAbout(o.messages, s)) = 1
            /\ o.n_missed = Cardinality(range \cap fin.own \cap fin.missed)
            /\ o.result = fin.F


-----------------------------------------------------------------------------
(* app.py and blocks.py: last_processed_finalized_slot and the calls of
   process_missed_blocks_finalized over a run (SpecReconcile) *)

MaxReconcileSlot == 7

\* the first slot the loop processes
ReconcileStartSlots == {0, 3, 4}

\* what the relays answer to process_block_proposal: no relay has the slot,
\* or the first one has a payload
ReconcileRelayAnswers == {<< >>, << [status |-> "payload", wei |-> 7] >>}

\* the node's finalized slot lies at or behind the first slot of the loop
InitReconcile ==
    \E first \in ReconcileStartSlots, F \in 0..3 :
        /\ F <= first
        /\ fin \in [pc : {"loop"}, first : {first}, next : {first}, cur : {None},
                     L : {None}, before : {None}, F : {F},
                     own : {{}, {2, 3, 5}}, missed : {{}, {3}},
                     calls : {0}, examined : {<< >>}, last : {<< >>}, raised : {""}]

\* one iteration of the loop, as far as the cursor goes: the cursor set at
\* the first slot, block_reward = process_block_proposal(cursor), the cursor
\* set to what process_missed_blocks_finalized returns. The node's
\* finalized slot never decreases and never lies beyond the slot.
ReconcileIteration ==
    /\ fin.pc = "loop"
    /\ fin.next <= MaxReconcileSlot
    /\ \E F \in fin.F..(fin.F + MaxFinalizedStep), answers \in ReconcileRelayAnswers,
          node_ok \in BOOLEAN, tg_ok \in BOOLEAN :
          LET cur == fin.next
              cursor == IF fin.L = None THEN FirstCursor(cur) ELSE fin.L
              proposal == process_block_proposal(cursor, None, answers)
              call == process_missed_blocks_finalized(cursor, cur, proposal.value, fin.own,
                                                      fin.missed, F, node_ok, tg_ok)
          IN  /\ F <= cur
              /\ fin' =
                    IF proposal.raised # ""
                    THEN [fin EXCEPT !.pc = "crashed", !.cur = cur, !.L = cursor,
                                     !.before = cursor, !.last = << >>,
                                     !.raised = proposal.raised]
                    ELSE [fin EXCEPT !.pc = IF call.raised # "" THEN "crashed" ELSE "loop",
                                     !.cur = cur,
                                     !.next = cur + 1,
                                     !.before = cursor,
                                     !.L = IF call.raised # "" THEN cursor ELSE call.result,
                                     !.F = F,
                                     !.calls = @ + 1,
                                     !.examined = @ \o call.examined,
                                     !.last = call.examined,
                                     !.raised = call.raised]
    /\ UNCHANGED << engineVars, relay, rew, sl, ld, att, live, trk, cmp, fut, act, rfr, blk >>

InitReconcileCall == InitReconcile /\ EngineOff /\ RelayIdle /\ RewIdle /\ SlIdle /\ LaterIdle

SpecReconcile == InitReconcileCall /\ [][ReconcileIteration]_vars

\* C36: the reconciliation never examines a slot at or before the first
\* slot the loop observed, the value last_processed_finalized_slot starts with.
C36_NothingBeforeFirstSlot ==
    \A i \in 1..Len(fin.examined) : fin.examined[i] > fin.first

\* C37: with a node whose finalized slot never decreases every slot is
\* examined by the reconciliation at most once over the run, and a call
\* that returns has examined every slot after the cursor it was given up to
\* the finalized slot it returns, none skipped.
C37_EachSlotOnceNoneSkipped ==
    /\ \A i, j \in 1..Len(fin.examined) : i # j => fin.examined[i] # fin.examined[j]
    /\ (fin.pc = "loop" /\ fin.calls >= 1) => fin.last = SlotsAfter(fin.before, fin.L)

\* C37 witness: three calls have returned, the last one has examined two
\* slots that follow the slots examined by the calls before it.
C37_RangesFollowEachOther ==
    /\ fin.pc = "loop"
    /\ fin.calls >= 3
    /\ Len(fin.last) = 2
    /\ Len(fin.examined) >= 4
    /\ fin.last[1] = fin.examined[Len(fin.examined) - 2] + 1

-----------------------------------------------------------------------------
(* One call of process_block_proposal (SpecRelay) *)

InitRelay ==
    relay \in [pc : {"call"}, slot : {0, 1, 2}, block : {None, 2},
               outcomes : UNION {RelayAnswers(n) : n \in 0..MaxRelays},
               out : {[raised |-> "", value |-> NoneReward(None), requests |-> 0,
                       n_mevblocks |-> 0]}]

CallProcessBlockProposal ==
    /\ relay.pc = "call"
    /\ relay' = [relay EXCEPT !.pc = "done",
                              !.out = process_block_proposal(relay.slot, relay.block,
                                                             relay.outcomes)]
    /\ UNCHANGED << engineVars, fin, rew, sl, ld, att, live, trk, cmp, fut, act, rfr, blk >>

InitRelayCall == InitRelay /\ EngineOff /\ FinIdle /\ RewIdle /\ SlIdle /\ LaterIdle

SpecRelay == InitRelayCall /\ [][CallProcessBlockProposal]_vars

\* the relays that answer with a non-empty list
PayloadRelays(outcomes) == {i \in 1..Len(outcomes) : outcomes[i].status = "payload"}

\* the first of them
FirstPayload(outcomes) ==
    CHOOSE i \in PayloadRelays(outcomes) : \A j \in PayloadRelays(outcomes) : i <= j

\* C7: whatever each relay answers (HTTP or TLS error, empty list, non-empty
\* list), also with no relay at all, the call returns a number: the value of
\* the first non-empty answer in ether, or 0 when no relay gives one.
C7_RelayValueOrZero ==
    (/\ relay.pc = "done"
     /\ relay.slot # 0
     /\ \A i \in 1..Len(relay.outcomes) : relay.outcomes[i].status # "ConnectionError")
        => /\ relay.out.raised = ""
           /\ relay.out.value.kind = "number"
           /\ IF PayloadRelays(relay.outcomes) = {}
              THEN relay.out.value.coef = 0
              ELSE /\ relay.out.value.coef = relay.outcomes[FirstPayload(relay.outcomes)].wei
                   /\ relay.out.value.exp10 = -18

\* C39: process_block_proposal returns normally when it is called with
\* slot 0 and no block, as the loop calls it with a cursor of 0: slot 0 is a
\* slot to query, not a missing argument.
C39_SlotZeroIsASlot ==
    (/\ relay.pc = "done" /\ relay.slot = 0 /\ relay.block = None
     /\ \A i \in 1..Len(relay.outcomes) : relay.outcomes[i].status # "ConnectionError")
        => relay.out.raised = ""


-----------------------------------------------------------------------------
(* validators.py: ValidatorsSlashed (SpecSlashed) *)

\* validator indexes
Indexes == 1..MaxIndex

\* ValidatorsSlashed.__init__: both remembered sets are None
SlashedNew ==
    [total_is_none |-> TRUE, own_is_none |-> TRUE,
     total_exited_slashed_indexes |-> {}, own_exited_slashed_indexes |-> {}]

\* ValidatorsSlashed.process on tracker t. total, own: the indexes of the
\* exited_slashed maps; total_wd, own_wd: the slashed indexes of the
\* withdrawal maps. Subscripting the set not_own_new_exited_slashed_indexes
\* raises TypeError in the first round of the first loop.
SlashedProcess(t, total, own, total_wd, own_wd, tg_ok) ==
    LET gauges == [network_validators_slashed |-> Cardinality(total \cup total_wd),
                   own_validators_slashed |-> Cardinality(own \cup own_wd)]
        total_new == total \ t.total_exited_slashed_indexes
        own_new == own \ t.own_exited_slashed_indexes
        not_own_new == total_new \ own_new
        remembered == [total_is_none |-> FALSE, own_is_none |-> FALSE,
                       total_exited_slashed_indexes |-> total,
                       own_exited_slashed_indexes |-> own]
    IN  IF t.total_is_none \/ t.own_is_none
        THEN [tracker |-> remembered, gauges |-> gauges, raised |-> "",
              logged |-> {}, alerted |-> {}]
        ELSE IF not_own_new # {}
        THEN [tracker |-> t, gauges |-> gauges, raised |-> "TypeError",
              logged |-> {}, alerted |-> {}]
        ELSE IF own_new # {} /\ ~tg_ok
        THEN [tracker |-> t, gauges |-> gauges, raised |-> "TelegramError",
              logged |-> {}, alerted |-> {}]
        ELSE [tracker |-> remembered, gauges |-> gauges, raised |-> "",
              logged |-> own_new, alerted |-> own_new]

InitSlashed ==
    sl = [pc |-> "ready", calls |-> 0, tracker |-> SlashedNew, was_primed |-> FALSE,
          prev |-> SlashedNew, total |-> {}, own |-> {}, tg_ok |-> TRUE,
          gauges |-> [network_validators_slashed |-> 0, own_validators_slashed |-> 0],
          raised |-> "", logged |-> {}, alerted |-> {}]

\* one call from the refresh of a new epoch: the own maps are the network
\* maps restricted to the own keys of that epoch
CallSlashedProcess ==
    /\ sl.pc = "ready"
    /\ sl.calls < MaxCalls
    /\ \E total \in SUBSET Indexes, total_wd \in SUBSET Indexes,
          own_keys \in SUBSET Indexes, tg_ok \in BOOLEAN :
          /\ total \cap total_wd = {}
          /\ LET own == total \cap own_keys
                 r == SlashedProcess(sl.tracker, total, own, total_wd,
                                     total_wd \cap own_keys, tg_ok)
             IN  sl' = [pc |-> "ready", calls |-> sl.calls + 1, tracker |-> r.tracker,
                        was_primed |-> ~(sl.tracker.total_is_none \/ sl.tracker.own_is_none),
                        prev |-> sl.tracker, total |-> total, own |-> own,
                        tg_ok |-> tg_ok, gauges |-> r.gauges, raised |-> r.raised,
                        logged |-> r.logged, alerted |-> r.alerted]
    /\ UNCHANGED << engineVars, fin, relay, rew, ld, att, live, trk, cmp, fut, act, rfr, blk >>

InitSlashedCall == InitSlashed /\ EngineOff /\ FinIdle /\ RelayIdle /\ RewIdle /\ LaterIdle

SpecSlashed == InitSlashedCall /\ [][CallSlashedProcess]_vars

\* C9: a call after the first one, with a working messenger, alerts exactly
\* the indexes that are newly own exited_slashed, raises no error for the
\* indexes that are newly exited_slashed in the network and not newly own,
\* and ends with both remembered sets equal to the sets passed in.
C9_SlashedAlertsAndRemembers ==
    (sl.calls >= 1 /\ sl.was_primed /\ sl.tg_ok)
        => /\ sl.raised = ""
           /\ sl.alerted = sl.own \ sl.prev.own_exited_slashed_indexes
           /\ sl.tracker.total_exited_slashed_indexes = sl.total
           /\ sl.tracker.own_exited_slashed_indexes = sl.own


-----------------------------------------------------------------------------
(* cl_node.py: get_rewards, rewards.py: process_rewards (SpecRewards) *)

\* data_types.py: ConsensusClient
ConsensusClients == {"lighthouse", "prysm", "teku", "nimbus", "other"}

\* data_types.py: the fields of Rewards.Data, both without a default
RewardsDataFields == {"ideal_rewards", "total_rewards"}

\* cl_node.py: the keywords get_rewards passes to Rewards.Data for Prysm
\* and Nimbus
PrysmNimbusKeywords == {"possible_rewards", "earned_rewards"}

\* pydantic builds a model only when every field without a default is given
ValidatesAsRewardsData(keywords) == RewardsDataFields \subseteq keywords

\* the ideal (source, target, head) reward of the one effective balance
IdealReward == << 2, 2, 1 >>

\* the (source, target, head) rewards a validator can have earned
EarnedChoices == { << 2, 2, 1 >>, << 2, 1, 1 >>, << -2, -2, 0 >> }

\* ConsensusNode.get_rewards: earned is the node's table of total rewards,
\* status the HTTP status of its answer; every is TRUE for a request without
\* validators_index
get_rewards(cl_client, first_rewards_call, status, earned, every, validators_index) ==
    IF cl_client \in {"nimbus", "prysm"}
    THEN [raised |-> IF ValidatesAsRewardsData(PrysmNimbusKeywords)
                     THEN "" ELSE "ValidationError",
          warned |-> IF first_rewards_call THEN 1 ELSE 0,
          first_rewards_call |-> FALSE, requests |-> 0, total_rewards |-> << >>]
    ELSE IF status # 200
    THEN [raised |-> "HTTPError", warned |-> 0,
          first_rewards_call |-> first_rewards_call, requests |-> 1,
          total_rewards |-> << >>]
    ELSE [raised |-> "", warned |-> 0,
          first_rewards_call |-> first_rewards_call, requests |-> 1,
          total_rewards |->
              [i \in IF every THEN DOMAIN earned
                     ELSE DOMAIN earned \cap validators_index |-> earned[i]]]

\* the snapshot process_rewards takes from a cache: epoch - 2, else
\* epoch - 1, else epoch
Snapshot(cache, e) ==
    IF e - 2 \in DOMAIN cache THEN cache[e - 2]
    ELSE IF e - 1 \in DOMAIN cache THEN cache[e - 1]
    ELSE cache[e]

RECURSIVE SumEarned(_, _, _)
SumEarned(S, total, k) ==
    IF S = {} THEN 0
    ELSE LET i == CHOOSE x \in S : TRUE
         IN  total[i][k] + SumEarned(S \ {i}, total, k)

\* _compare_rewards, for component k of validator i
IsMaximum(total, i, k) == total[i][k] = IdealReward[k]

NotPerfect(S, total, k) == {i \in S : ~IsMaximum(total, i, k)}

NoMetrics ==
    [set |-> FALSE, rates |-> << >>, possible |-> << >>,
     rewards |-> << >>, penalties |-> << >>]

\* the gauges set and the counter increments made for the validators S
RewardMetrics(S, total) ==
    LET n == Cardinality(S)
        sum(k) == SumEarned(S, total, k)
    IN  [set |-> TRUE,
         rates |-> [k \in 1..3 |-> << n - Cardinality(NotPerfect(S, total, k)), n >>],
         possible |-> [k \in 1..3 |-> n * IdealReward[k]],
         rewards |-> [k \in 1..3 |-> IF k = 3 \/ sum(k) >= 0 THEN sum(k) ELSE 0],
         penalties |-> [k \in 1..2 |-> IF sum(k) < 0 THEN 0 - sum(k) ELSE 0]]

RewardLabels == << "source", "target", "head" >>

\* the labels _log alerts for, in the order of the three calls
RewardAlerts(S, total) ==
    SelectSeq(<< 1, 2, 3 >>, LAMBDA k : NotPerfect(S, total, k) # {})

RewardsOut(exc, g, requests, net, own, sent) ==
    [raised |-> exc, warned |-> g.warned,
     first_rewards_call |-> g.first_rewards_call, requests |-> requests,
     net |-> net, own |-> own, alerts |-> sent]


\* a comparison that starts one epoch early
is_before_rewards_one(e) == e < 1

\* if epoch < 2: return
is_before_rewards(e) == e < 2

\* process_rewards. first_rewards_call is the flag of the node object before
\* the call; the result holds what the call raised and what it did before.
process_rewards(cl_client, first_rewards_call, status, earned, e, net_cache, own_cache, tg_ok) ==
    LET quiet == [warned |-> 0, first_rewards_call |-> first_rewards_call]
        net == Snapshot(net_cache, e)
        g1 == get_rewards(cl_client, first_rewards_call, status, earned, TRUE, {})
        net_items == net \cap DOMAIN g1.total_rewards
        net_metrics == RewardMetrics(net_items, g1.total_rewards)
        our_indexes == Snapshot(own_cache, e)
        g2 == get_rewards(cl_client, g1.first_rewards_call, status, earned,
                          FALSE, our_indexes)
        after2 == [warned |-> g1.warned + g2.warned,
                   first_rewards_call |-> g2.first_rewards_call]
        labels == RewardAlerts(our_indexes, g2.total_rewards)
    IN  IF is_before_rewards(e) THEN RewardsOut("", quiet, 0, NoMetrics, NoMetrics, << >>)
        ELSE IF net = {} THEN RewardsOut("", quiet, 0, NoMetrics, NoMetrics, << >>)
        ELSE IF g1.raised # ""
        THEN RewardsOut(g1.raised, g1, g1.requests, NoMetrics, NoMetrics, << >>)
        ELSE IF net_items = {}
        THEN RewardsOut("ValueError", g1, g1.requests, NoMetrics, NoMetrics, << >>)
        ELSE IF our_indexes = {}
        THEN RewardsOut("", g1, g1.requests, net_metrics, NoMetrics, << >>)
        ELSE IF g2.raised # ""
        THEN RewardsOut(g2.raised, after2, g1.requests + g2.requests,
                        net_metrics, NoMetrics, << >>)
        ELSE IF ~(our_indexes \subseteq DOMAIN g2.total_rewards)
        THEN RewardsOut("KeyError", after2, g1.requests + g2.requests,
                        net_metrics, NoMetrics, << >>)
        ELSE IF labels # << >> /\ ~tg_ok
        THEN RewardsOut("TelegramError", after2, g1.requests + g2.requests,
                        net_metrics, RewardMetrics(our_indexes, g2.total_rewards),
                        << >>)
        ELSE RewardsOut("", after2, g1.requests + g2.requests, net_metrics,
                        RewardMetrics(our_indexes, g2.total_rewards),
                        [j \in 1..Len(labels) |-> RewardLabels[labels[j]]])

RewardEpochs == {1, 2}

\* the HTTP status of the answer of the rewards endpoint
RewardsStatuses == {200, 400, 500}

\* the epochs a cache can hold when process_rewards runs in epoch e
CacheKeys(e) == { {e}, {e - 1, e}, {e - 2, e - 1, e} }

\* the caches: the oldest snapshot is drawn, the later ones hold every index
NetCaches(e) ==
    UNION { { [k \in K |-> IF \A j \in K : k <= j THEN A ELSE Indexes] :
              A \in SUBSET Indexes } : K \in CacheKeys(e) }

EarnedTables == UNION { [R -> EarnedChoices] : R \in SUBSET Indexes }

InitRewards ==
    \E c \in ConsensusClients, e \in RewardEpochs, status \in RewardsStatuses,
       tg_ok \in BOOLEAN, own_keys \in SUBSET Indexes, earned \in EarnedTables :
       \E net_cache \in NetCaches(e) :
          rew = [pc |-> "ready", calls |-> 0, cl_client |-> c, epoch |-> e,
                 status |-> status, tg_ok |-> tg_ok, earned |-> earned,
                 net_cache |-> net_cache,
                 own_cache |-> [k \in DOMAIN net_cache |-> net_cache[k] \cap own_keys],
                 first_rewards_call |-> TRUE,
                 out |-> RewardsOut("", [warned |-> 0, first_rewards_call |-> TRUE],
                                    0, NoMetrics, NoMetrics, << >>)]

CallProcessRewards ==
    /\ rew.pc = "ready"
    /\ rew.calls < MaxRewardsCalls
    /\ LET r == process_rewards(rew.cl_client, rew.first_rewards_call, rew.status,
                                rew.earned, rew.epoch, rew.net_cache,
                                rew.own_cache, rew.tg_ok)
       IN  rew' = [rew EXCEPT !.calls = rew.calls + 1,
                              !.first_rewards_call = r.first_rewards_call,
                              !.out = r]
    /\ UNCHANGED << engineVars, fin, relay, sl, ld, att, live, trk, cmp, fut, act, rfr, blk >>

InitRewardsCall == InitRewards /\ EngineOff /\ FinIdle /\ RelayIdle /\ SlIdle /\ LaterIdle

SpecRewards == InitRewardsCall /\ [][CallProcessRewards]_vars

\* C8: with a Prysm or Nimbus client a call of process_rewards completes
\* without raising, requests nothing from the node, leaves every rate gauge
\* and reward counter alone and sends no alert; the warning is printed by
\* the first such call only.
C8_PrysmNimbusRewardsSkipped ==
    (rew.calls >= 1 /\ rew.cl_client \in {"prysm", "nimbus"})
        => /\ rew.out.raised = ""
           /\ rew.out.requests = 0
           /\ ~rew.out.net.set /\ ~rew.out.own.set
           /\ rew.out.alerts = << >>
           /\ rew.out.warned <= 1
           /\ (rew.calls >= 2 => rew.out.warned = 0)

\* C21: when the rewards endpoint answers HTTP 400 the rewards path turns it
\* into an empty result: get_rewards does not raise and process_rewards
\* finishes without changing any metric.
C21_RewardsBadRequestIsEmpty ==
    (rew.calls >= 1 /\ rew.status = 400 /\ rew.out.requests >= 1)
        => /\ rew.out.raised = ""
           /\ ~rew.out.net.set /\ ~rew.out.own.set

\* the oldest snapshot of the network cache: the one process_rewards selects
OldestNetSnapshot ==
    rew.net_cache[CHOOSE k \in DOMAIN rew.net_cache : \A j \in DOMAIN rew.net_cache : k <= j]

\* C22: a call of process_rewards with epoch < 2, or with an empty network
\* snapshot selected for the analysed epoch, sends no request to the node,
\* changes no gauge or counter and sends no alert.
C22_RewardsNoOp ==
    (rew.calls >= 1 /\ (rew.epoch < 2 \/ OldestNetSnapshot = {}))
        => /\ rew.out.raised = ""
           /\ rew.out.requests = 0
           /\ rew.out.warned = 0
           /\ ~rew.out.net.set /\ ~rew.out.own.set
           /\ rew.out.alerts = << >>

\* C22 witness: epoch 2, a node that would answer, an empty snapshot of
\* epoch 0 while the later snapshots hold validators.
C22_EmptySnapshotSkipped ==
    /\ rew.calls >= 1
    /\ rew.epoch = 2
    /\ rew.cl_client = "lighthouse"
    /\ rew.status = 200
    /\ DOMAIN rew.net_cache = {0, 1, 2}
    /\ rew.net_cache[0] = {}
    /\ rew.net_cache[2] # {}
    /\ rew.out.requests = 0

-----------------------------------------------------------------------------
(* utils.py: LimitedDict (SpecLimitedDict) *)

MaxK == 3

MaxKey == 4

MaxInserts == 4

RECURSIVE sorted(_)
\* sorted(d): the keys in increasing order
sorted(keys) ==
    IF keys = {} THEN << >>
    ELSE LET m == CHOOSE k \in keys : \A j \in keys : k <= j
         IN  << m >> \o sorted(keys \ {m})

\* a slice that leaves the first max_size keys in the dictionary
first_keys_keep_smallest(sorted_keys, max_size) ==
    {sorted_keys[i] : i \in (max_size + 1)..Len(sorted_keys)}

\* sorted(self.__dict)[: -self.__max_size]; the stop index -0 is 0
first_keys(sorted_keys, max_size) ==
    LET stop == IF max_size = 0 THEN 0 ELSE Max(0, Len(sorted_keys) - max_size)
    IN  {sorted_keys[i] : i \in 1..stop}

\* a dictionary that takes no new key once it holds max_size keys
setitem_full_refuses(d, max_size, key, value) ==
    IF key \notin DOMAIN d /\ Cardinality(DOMAIN d) >= max_size THEN d
    ELSE [k \in DOMAIN d \cup {key} |-> IF k = key THEN value ELSE d[k]]

\* LimitedDict.__setitem__ on the dictionary d
setitem(d, max_size, key, value) ==
    LET stored == [k \in DOMAIN d \cup {key} |-> IF k = key THEN value ELSE d[k]]
        popped == first_keys(sorted(DOMAIN stored), max_size)
    IN  [k \in DOMAIN stored \ popped |-> stored[k]]

InitLimitedDict ==
    ld \in [pc : {"new"}, max_size : -1..MaxK, dict : {<< >>}, log : {<< >>}]

\* LimitedDict(max_size): assert max_size >= 0
NewLimitedDict ==
    /\ ld.pc = "new"
    /\ ld' = [ld EXCEPT !.pc = IF ld.max_size >= 0 THEN "ready" ELSE "AssertionError"]
    /\ UNCHANGED << engineVars, fin, relay, rew, sl, att, live, trk, cmp, fut, act, rfr, blk >>

\* d[key] = value
SetItem ==
    /\ ld.pc = "ready"
    /\ Len(ld.log) < MaxInserts
    /\ \E key \in 1..MaxKey :
          ld' = [ld EXCEPT !.dict = setitem(ld.dict, ld.max_size, key, Len(ld.log) + 1),
                           !.log = Append(ld.log, key)]
    /\ UNCHANGED << engineVars, fin, relay, rew, sl, att, live, trk, cmp, fut, act, rfr, blk >>

InitLimitedDictCall ==
    InitLimitedDict /\ EngineOff /\ FinIdle /\ RelayIdle /\ RewIdle /\ SlIdle /\ AttIdle /\ LiveIdle
        /\ TrkIdle /\ CmpIdle /\ FutIdle /\ ActIdle /\ RfrIdle /\ BlkIdle

NextLimitedDict == NewLimitedDict \/ SetItem

SpecLimitedDict == InitLimitedDictCall /\ [][NextLimitedDict]_vars

\* the distinct keys ever inserted
InsertedKeys == {ld.log[i] : i \in 1..Len(ld.log)}

\* the n largest members of a set of keys
Largest(keys, n) == {k \in keys : Cardinality({j \in keys : j > k}) < n}

\* C15: for a LimitedDict of maximum size K >= 1, after every insertion the
\* number of keys is at most K and the keys present are exactly the K largest
\* distinct keys ever inserted (all of them while fewer than K were inserted).
C15_KeepsLargestKeys ==
    (ld.pc = "ready" /\ ld.max_size >= 1) =>
        /\ Cardinality(DOMAIN ld.dict) <= ld.max_size
        /\ DOMAIN ld.dict = Largest(InsertedKeys, ld.max_size)

\* C15 witness: K = 3 and the keys 1, 2, 3, 4 inserted in this order leave {2, 3, 4}.
C15_EvictsSmallest ==
    /\ ld.pc = "ready"
    /\ ld.max_size = 3
    /\ ld.log = << 1, 2, 3, 4 >>
    /\ DOMAIN ld.dict = {2, 3, 4}

\* C40: a LimitedDict of maximum size 0, which the assertion of the
\* constructor accepts, holds no entry after any insertion: its size never
\* exceeds its limit.
C40_LimitZeroHoldsNothing ==
    (ld.pc = "ready" /\ ld.max_size = 0) => Cardinality(DOMAIN ld.dict) <= ld.max_size


-----------------------------------------------------------------------------
(* attestations.py: process_attestations, one call (SpecAttestations) *)

MaxAttestations == 2

\* hex_to_binary of a two-digit hexadecimal string of value b: 8 bits, the
\* most significant one first
hex_to_binary(b) == [i \in 1..8 |-> (b \div 2^(8 - i)) % 2 = 1]

\* a decoding that leaves the bit order of the bytes as it is
switch_endianness_none(bits) == bits

\* every chunk of 8 bits reversed
switch_endianness(bits) ==
    [i \in 1..Len(bits) |->
        LET first == 8 * ((i - 1) \div 8) + 1
            last == IF first + 7 <= Len(bits) THEN first + 7 ELSE Len(bits)
        IN  bits[first + last - i]]

\* bits[: -index - 1] without the True itself: the trailing False bits removed
strip_trailing_zero_bits(bits) ==
    LET found == {i \in 0..(Len(bits) - 1) : bits[Len(bits) - i]}
    IN  IF found = {} THEN [raised |-> "StopIteration", bits |-> << >>]
        ELSE LET first_found == CHOOSE i \in found : \A j \in found : i <= j
             IN  [raised |-> "", bits |-> SubSeq(bits, 1, Len(bits) - first_found)]

\* index = the place of the first True of reversed(bits), StopIteration
\* without one; bits[: -index - 1]
delete_zero_bits(bits) ==
    LET found == {i \in 0..(Len(bits) - 1) : bits[Len(bits) - i]}
    IN  IF found = {} THEN [raised |-> "StopIteration", bits |-> << >>]
        ELSE LET first_found == CHOOSE i \in found : \A j \in found : i <= j
             IN  [raised |-> "", bits |-> SubSeq(bits, 1, Len(bits) - first_found - 1)]

\* aggregate_bits of the vectors of one committee: ValueError when their
\* lengths differ, else any() of every position
aggregate_bits(list_of_bools) ==
    IF Cardinality({Len(v) : v \in list_of_bools}) > 1
    THEN [raised |-> "ValueError", bits |-> << >>]
    ELSE LET n == Len(CHOOSE v \in list_of_bools : TRUE)
         IN  [raised |-> "", bits |-> [i \in 1..n |-> \E v \in list_of_bools : v[i]]]

\* apply_mask: zip stops at the shorter of the two
apply_mask(items, mask) ==
    {items[i] : i \in {j \in 1..Len(items) : j <= Len(mask) /\ mask[j]}}

\* aggregate_attestations(block, slot)
aggregate_attestations(attestations, s) ==
    LET filtered == SelectSeq(attestations, LAMBDA a : a.slot = s)
        decoded == [i \in 1..Len(filtered) |->
                       delete_zero_bits(switch_endianness(hex_to_binary(filtered[i].bits)))]
        committees == {filtered[i].index : i \in 1..Len(filtered)}
        aggregated == [c \in committees |->
                          aggregate_bits({decoded[i].bits :
                              i \in {j \in 1..Len(filtered) : filtered[j].index = c}})]
    IN  IF \E i \in 1..Len(filtered) : decoded[i].raised # ""
        THEN [raised |-> "StopIteration", success |-> << >>]
        ELSE IF \E c \in committees : aggregated[c].raised # ""
        THEN [raised |-> "ValueError", success |-> << >>]
        ELSE [raised |-> "", success |-> [c \in committees |-> aggregated[c].bits]]

\* the duty lists of the committees at the previous slot
Duties == [c \in {0, 1} |-> IF c = 0 THEN << 1, 2, 3 >> ELSE << 4, 5 >>]

\* a fraction num / den, or Python's None
Fraction(num, den) == [kind |-> "number", num |-> num, den |-> den]

NoFraction == [kind |-> "None", num |-> 0, den |-> 1]

\* a rate that is 0 when no own validator had a duty
attestation_rate_or_zero(n_included, n_assigned) ==
    IF n_assigned # 0 THEN Fraction(n_included, n_assigned) ELSE Fraction(0, 1)

\* attestation_rate = len(included own) / len(assigned own), or None
attestation_rate(n_included, n_assigned) ==
    IF n_assigned # 0 THEN Fraction(n_included, n_assigned) ELSE NoFraction

\* what a call leaves behind: the exception, the returned set, the value the
\* participation gauge was set to (NoFraction: not set) and whether an alert was sent
AttestationsOut(exc, result, gauge, sent) ==
    [raised |-> exc, result |-> result, gauge |-> gauge, alerted |-> sent]

\* process_attestations(cl_node, block, slot, own_active_validators_index2validator, telegram)
process_attestations(attestations, s, duties, own, tg_ok) ==
    IF s < 1 THEN AttestationsOut("", {}, NoFraction, FALSE)
    ELSE
    LET assigned == UNION {{duties[c][i] : i \in 1..Len(duties[c])} : c \in DOMAIN duties}
        assigned_own == assigned \cap own
        agg == aggregate_attestations(attestations, s - 1)
    IN  IF agg.raised # "" THEN AttestationsOut(agg.raised, {}, NoFraction, FALSE)
        ELSE IF \E c \in DOMAIN agg.success : c \notin DOMAIN duties
        THEN AttestationsOut("KeyError", {}, NoFraction, FALSE)
        ELSE
        LET included == UNION {apply_mask(duties[c], agg.success[c]) : c \in DOMAIN agg.success}
            included_own == included \cap assigned_own
            shortfall == assigned_own \ included_own
            rate == attestation_rate(Cardinality(included_own), Cardinality(assigned_own))
            gauge == IF rate # NoFraction THEN Fraction(100 * rate.num, rate.den)
                     ELSE NoFraction
        IN  IF shortfall = {} THEN AttestationsOut("", shortfall, gauge, FALSE)
            ELSE IF rate = NoFraction THEN AttestationsOut("AssertionError", {}, gauge, FALSE)
            ELSE IF ~tg_ok THEN AttestationsOut("TelegramError", {}, gauge, FALSE)
            ELSE AttestationsOut("", shortfall, gauge, TRUE)

\* aggregation bits of the attestations: no bit at all, vectors of two and
\* of three validators
AggregationBytes == {0, 5, 6, 9, 12}

AttestationValues == [slot : {0, 1}, index : {0, 1, 2}, bits : AggregationBytes]

RECURSIVE SeqsUpTo(_, _)
SeqsUpTo(S, n) ==
    IF n = 0 THEN {<< >>}
    ELSE LET shorter == SeqsUpTo(S, n - 1)
         IN  shorter \cup {Append(q, x) : q \in shorter, x \in S}

OwnActiveChoices == { {}, {6}, {1, 4}, {2, 3, 5, 6} }

InitAttestations ==
    att \in [pc : {"call"}, slot : {0, 2},
             attestations : SeqsUpTo(AttestationValues, MaxAttestations),
             own : OwnActiveChoices, tg_ok : BOOLEAN,
             out : {AttestationsOut("", {}, NoFraction, FALSE)}]

CallProcessAttestations ==
    /\ att.pc = "call"
    /\ att' = [att EXCEPT !.pc = "done",
                          !.out = process_attestations(att.attestations, att.slot, Duties,
                                                       att.own, att.tg_ok)]
    /\ UNCHANGED << engineVars, fin, relay, rew, sl, ld, live, trk, cmp, fut, act, rfr, blk >>

InitAttestationsCall ==
    InitAttestations /\ EngineOff /\ FinIdle /\ RelayIdle /\ RewIdle /\ SlIdle /\ LdIdle /\ LiveIdle
        /\ TrkIdle /\ CmpIdle /\ FutIdle /\ ActIdle /\ RfrIdle /\ BlkIdle

SpecAttestations == InitAttestationsCall /\ [][CallProcessAttestations]_vars

\* the validator at place p (from 0) of a committee is marked in the
\* aggregation bits of value b: bit p is set and a higher bit closes the list
Marked(b, p) == (b \div 2^p) % 2 = 1 /\ b \div 2^(p + 1) > 0

\* the attestations of the block for the slot before the block's
ForPreviousSlot == SelectSeq(att.attestations, LAMBDA a : a.slot = att.slot - 1)

\* the duty-list members marked by some attestation for the previous slot
IncludedValidators ==
    {v \in 1..6 :
        \E i \in 1..Len(ForPreviousSlot) :
            LET a == ForPreviousSlot[i] IN
            /\ a.index \in DOMAIN Duties
            /\ \E p \in 0..(Len(Duties[a.index]) - 1) :
                  Duties[a.index][p + 1] = v /\ Marked(a.bits, p)}

AssignedOwn ==
    (UNION {{Duties[c][i] : i \in 1..Len(Duties[c])} : c \in DOMAIN Duties}) \cap att.own

\* C18: for a block at slot s >= 1 a call that returns gives the own
\* validators with a duty at slot s - 1 minus the validators marked in the
\* OR of the decoded aggregation bits of the block's attestations for slot
\* s - 1; attestations for other slots never change the outcome; the result
\* lies within the assigned own validators and apart from the included ones.
C18_ShortfallIsAssignedMinusIncluded ==
    (att.pc = "done" /\ att.slot >= 1) =>
        /\ att.out = process_attestations(ForPreviousSlot, att.slot, Duties, att.own, att.tg_ok)
        /\ att.out.raised = "" =>
              /\ att.out.result = AssignedOwn \ IncludedValidators
              /\ att.out.result \subseteq AssignedOwn
              /\ att.out.result \cap IncludedValidators = {}

\* C18 witness: a call with an attestation for another slot returned some,
\* not all, of the assigned own validators.
C18_PartlyIncluded ==
    /\ att.pc = "done"
    /\ att.slot >= 1
    /\ att.out.raised = ""
    /\ Len(ForPreviousSlot) < Len(att.attestations)
    /\ att.out.result # {}
    /\ att.out.result # AssignedOwn

\* C19: a call for slot >= 1 that gets as far as the gauge sets it to
\* 100 * |included own| / |assigned own| exactly when own validators were
\* assigned and leaves it alone otherwise; it sends an alert exactly when the
\* shortfall is not empty (the messenger being reachable); the assertion on
\* the rate never fails.
C19_GaugeAndAlert ==
    (att.pc = "done" /\ att.slot >= 1) =>
        /\ att.out.raised # "AssertionError"
        /\ (att.out.raised = "" /\ att.tg_ok) =>
              /\ att.out.gauge =
                    IF AssignedOwn # {}
                    THEN Fraction(100 * Cardinality(AssignedOwn \cap IncludedValidators),
                                  Cardinality(AssignedOwn))
                    ELSE NoFraction
              /\ att.out.alerted <=> att.out.result # {}

\* C19 witness: one of two assigned own validators is included: the gauge
\* is set to 100 * 1 / 2 and the alert is sent.
C19_HalfParticipation ==
    /\ att.pc = "done"
    /\ att.out.raised = ""
    /\ att.out.gauge = Fraction(100, 2)
    /\ att.out.alerted


-----------------------------------------------------------------------------
(* utils.py: hex_to_binary, switch_endianness, delete_zero_bits on one
   aggregation value (SpecBits) *)

MaxBits == 5

MaxCommittee == 9

\* int(hex_wo0x, 16) of a string of hexadecimal digits, given as their values
RECURSIVE int_of_hex(_)
int_of_hex(hex_wo0x) ==
    IF hex_wo0x = << >> THEN 0
    ELSE 16 * int_of_hex(SubSeq(hex_wo0x, 1, Len(hex_wo0x) - 1)) + hex_wo0x[Len(hex_wo0x)]

\* hex_to_binary of a string of any length: bin(int(hex_wo0x, 16)) filled
\* with zeros to four bits a digit
hex_to_binary_string(hex_wo0x) ==
    LET hex_wo0x_size == Len(hex_wo0x) * 4
        binary == int_of_hex(hex_wo0x)
    IN  [i \in 1..hex_wo0x_size |-> (binary \div 2^(hex_wo0x_size - i)) % 2 = 1]

BitValue(bits, k) == IF k <= Len(bits) /\ bits[k] THEN 1 ELSE 0

\* the byte number b (from 0) of a bit list, its first bit the least significant
ByteOfBits(bits, b) ==
    BitValue(bits, 8 * b + 1) + 2 * BitValue(bits, 8 * b + 2) + 4 * BitValue(bits, 8 * b + 3)
        + 8 * BitValue(bits, 8 * b + 4) + 16 * BitValue(bits, 8 * b + 5)
        + 32 * BitValue(bits, 8 * b + 6) + 64 * BitValue(bits, 8 * b + 7)
        + 128 * BitValue(bits, 8 * b + 8)

\* the aggregation_bits value the beacon node sends for a committee: one bit
\* a member, the delimiter bit after them, zeros up to a whole byte, every
\* byte written as two hexadecimal digits
AggregationBitsOf(committee_bits) ==
    LET with_last_bit == Append(committee_bits, TRUE)
        n_bytes == (Len(with_last_bit) + 7) \div 8
    IN  [d \in 1..(2 * n_bytes) |->
            IF d % 2 = 1 THEN ByteOfBits(with_last_bit, (d - 1) \div 2) \div 16
            ELSE ByteOfBits(with_last_bit, (d - 1) \div 2) % 16]

BitVectors(n) == UNION {[1..k -> BOOLEAN] : k \in 0..n}

NoBits == [raised |-> "", bits |-> << >>]

\* a bare bit vector, or the aggregation value of a committee
InitBits ==
    \/ att \in [pc : {"decode"}, kind : {"bits"}, bits : BitVectors(MaxBits),
                 hex : {<< >>}, out : {NoBits}]
    \/ \E committee_bits \in BitVectors(MaxCommittee) :
          att = [pc |-> "decode", kind |-> "committee", bits |-> committee_bits,
                 hex |-> AggregationBitsOf(committee_bits), out |-> NoBits]

\* delete_zero_bits(bits)
CallDeleteZeroBits ==
    /\ att.pc = "decode"
    /\ att.kind = "bits"
    /\ att' = [att EXCEPT !.pc = "done", !.out = delete_zero_bits(att.bits)]
    /\ UNCHANGED << engineVars, fin, relay, rew, sl, ld, live, trk, cmp, fut, act, rfr, blk >>

\* the decoding of one attestation in aggregate_attestations
DecodeAggregationBits ==
    /\ att.pc = "decode"
    /\ att.kind = "committee"
    /\ att' = [att EXCEPT !.pc = "done",
                          !.out = delete_zero_bits(
                                      switch_endianness(hex_to_binary_string(att.hex)))]
    /\ UNCHANGED << engineVars, fin, relay, rew, sl, ld, live, trk, cmp, fut, act, rfr, blk >>

InitBitsCall ==
    InitBits /\ EngineOff /\ FinIdle /\ RelayIdle /\ RewIdle /\ SlIdle /\ LdIdle /\ LiveIdle
        /\ TrkIdle /\ CmpIdle /\ FutIdle /\ ActIdle /\ RfrIdle /\ BlkIdle

NextBits == CallDeleteZeroBits \/ DecodeAggregationBits

SpecBits == InitBitsCall /\ [][NextBits]_vars

\* the place (from 1) of the last True of a vector that has one
LastOne(bits) == CHOOSE i \in 1..Len(bits) : bits[i] /\ \A j \in (i + 1)..Len(bits) : ~bits[j]

\* C32: for every bit vector with at least one 1 delete_zero_bits returns the
\* prefix strictly before the last 1, of length the index of the last 1; a
\* vector of zeros, the empty one included, is an error; and the aggregation
\* value of a committee of n members, after hex decoding and the reversal of
\* every byte, gives a result of length exactly n.
C32_PrefixBeforeLastOne ==
    att.pc = "done" =>
        /\ (att.kind = "bits" /\ \E i \in 1..Len(att.bits) : att.bits[i])
              => /\ att.out.raised = ""
                 /\ att.out.bits = SubSeq(att.bits, 1, LastOne(att.bits) - 1)
                 /\ Len(att.out.bits) = LastOne(att.bits) - 1
        /\ (att.kind = "bits" /\ \A i \in 1..Len(att.bits) : ~att.bits[i])
              => att.out.raised = "StopIteration"
        /\ att.kind = "committee"
              => /\ att.out.raised = ""
                 /\ Len(att.out.bits) = Len(att.bits)

\* C32 witness: a committee of eight members, whose delimiter bit opens a
\* second byte, decoded to its eight bits.
C32_DelimiterInSecondByte ==
    /\ att.pc = "done"
    /\ att.kind = "committee"
    /\ Len(att.bits) = 8
    /\ att.hex[3] = 0 /\ att.hex[4] = 1
    /\ att.out.bits = att.bits


-----------------------------------------------------------------------------
(* cl_node.py: get_validators_liveness; attestations.py:                     *)
(* process_missed_attestations, one call (SpecLiveness)                      *)

\* the HTTP status of the answer of the liveness endpoint
HttpStatuses == {200, 400, 404, 500}

\* response.raise_for_status() raises HTTPError
raise_for_status(status) == status >= 400 /\ status < 600

\* a handler that lets every HTTP error through
is_reraised_always(status) == TRUE

\* if e.response.status_code != codes.bad_request: raise
is_reraised(status) == status # 400

\* what get_validators_liveness leaves behind
LivenessOut(exc, liveness, requests, flag) ==
    [raised |-> exc, liveness |-> liveness, requests |-> requests,
     first_liveness_call |-> flag]

\* ConsensusNode.get_validators_liveness(cl_client, epoch, validators_index);
\* status and dead are the node's answer: its HTTP status and, in a 200
\* answer, the indexes with is_live = false
get_validators_liveness(cl_client, first_liveness_call, status, dead, validators_index) ==
    IF cl_client = "nimbus"
    THEN LivenessOut("", [i \in validators_index |-> TRUE], 0, FALSE)
    ELSE IF raise_for_status(status)
    THEN IF is_reraised(status)
         THEN LivenessOut("HTTPError", << >>, 1, first_liveness_call)
         ELSE LivenessOut("", [i \in validators_index |-> TRUE], 1, first_liveness_call)
    ELSE LivenessOut("", [i \in validators_index |-> i \notin dead], 1, first_liveness_call)

\* what process_missed_attestations leaves behind: the returned set, the
\* value of the gauge (None: not set), whether an alert was sent
DetectionOut(exc, dead_indexes, gauge, sent, requests) ==
    [raised |-> exc, dead_indexes |-> dead_indexes, gauge |-> gauge, alerted |-> sent,
     requests |-> requests]

\* process_missed_attestations(cl_node, cl_client, epoch2index2validator_index, epoch, telegram)
process_missed_attestations(cl_client, flag, status, dead, validators_index, e, tg_ok) ==
    IF e < 1 THEN DetectionOut("", {}, None, FALSE, 0)
    ELSE
    LET r == get_validators_liveness(cl_client, flag, status, dead, validators_index)
        dead_indexes == {i \in DOMAIN r.liveness : ~r.liveness[i]}
    IN  IF r.raised # "" THEN DetectionOut(r.raised, {}, None, FALSE, r.requests)
        ELSE IF dead_indexes = {}
        THEN DetectionOut("", {}, 0, FALSE, r.requests)
        ELSE IF ~tg_ok
        THEN DetectionOut("TelegramError", {}, Cardinality(dead_indexes), FALSE, r.requests)
        ELSE DetectionOut("", dead_indexes, Cardinality(dead_indexes), TRUE, r.requests)

\* what process_paired_missed_attestations leaves behind after the detection:
\* whether it was called, the returned set, the value of the gauge (None: not
\* set), whether the message was printed and sent
PairedOut(called, exc, double_dead, gauge, printed, sent) ==
    [called |-> called, raised |-> exc, double_dead_indexes |-> double_dead,
     gauge |-> gauge, printed |-> printed, alerted |-> sent]

\* process_paired_missed_attestations(dead_indexes, previous_dead_indexes, epoch, telegram)
paired_missed_attestations(dead_indexes, previous_dead_indexes, e, tg_ok) ==
    LET double == process_paired_missed_attestations(dead_indexes, previous_dead_indexes, e)
    IN  IF is_before_paired(e) THEN PairedOut(TRUE, "", {}, None, FALSE, FALSE)
        ELSE IF double = {} THEN PairedOut(TRUE, "", {}, 0, FALSE, FALSE)
        ELSE IF ~tg_ok
        THEN PairedOut(TRUE, "TelegramError", {}, Cardinality(double), TRUE, FALSE)
        ELSE PairedOut(TRUE, "", double, Cardinality(double), TRUE, TRUE)

\* the dead set of the iteration before
PreviousDeadChoices == { {}, {9}, {7, 9, 12} }

\* the own validators of the snapshot the detection queries
QueriedChoices == { {}, {7, 9}, {7, 9, 12} }

InitLiveness ==
    /\ live \in [pc : {"call"}, cl_client : ConsensusClients, status : HttpStatuses,
                 first_liveness_call : BOOLEAN, validators_index : QueriedChoices,
                 dead : SUBSET {7, 9, 12}, epoch : 0..2, tg_ok : BOOLEAN,
                 previous_dead : PreviousDeadChoices,
                 call : {LivenessOut("", << >>, 0, TRUE)},
                 detection : {DetectionOut("", {}, None, FALSE, 0)},
                 paired : {PairedOut(FALSE, "", {}, None, FALSE, FALSE)}]
    /\ live.dead \subseteq live.validators_index

\* the detection of an iteration and, when it returns, the paired analysis
\* of the set it returned and the dead set of the iteration before
CallProcessMissedAttestations ==
    /\ live.pc = "call"
    /\ LET d == process_missed_attestations(
                    live.cl_client, live.first_liveness_call, live.status,
                    live.dead, live.validators_index, live.epoch, live.tg_ok)
       IN  live' = [live EXCEPT
                  !.pc = "done",
                  !.call = get_validators_liveness(live.cl_client, live.first_liveness_call,
                                                   live.status, live.dead,
                                                   live.validators_index),
                  !.detection = d,
                  !.paired = IF d.raised # "" THEN @
                             ELSE paired_missed_attestations(
                                      d.dead_indexes, live.previous_dead, live.epoch,
                                      live.tg_ok)]
    /\ UNCHANGED << engineVars, fin, relay, rew, sl, ld, att, trk, cmp, fut, act, rfr, blk >>

InitLivenessCall ==
    InitLiveness /\ EngineOff /\ FinIdle /\ RelayIdle /\ RewIdle /\ SlIdle /\ LdIdle /\ AttIdle
        /\ TrkIdle /\ CmpIdle /\ FutIdle /\ ActIdle /\ RfrIdle /\ BlkIdle

SpecLiveness == InitLivenessCall /\ [][CallProcessMissedAttestations]_vars

\* C20: get_validators_liveness reports every queried index as live, without
\* raising, for Nimbus (no request is sent) and when the endpoint answers
\* HTTP 400 to any other client; process_missed_attestations then returns an
\* empty dead set and sends no alert; every other HTTP error status is raised.
C20_UnsupportedLivenessIsAllLive ==
    live.pc = "done" =>
        /\ (live.cl_client = "nimbus" \/ live.status = 400) =>
              /\ live.call.raised = ""
              /\ live.call.liveness = [i \in live.validators_index |-> TRUE]
              /\ live.cl_client = "nimbus" => live.call.requests = 0
              /\ live.detection.raised = ""
              /\ live.detection.dead_indexes = {}
              /\ ~live.detection.alerted
        /\ (live.cl_client # "nimbus" /\ live.status \in {404, 500}) =>
              /\ live.call.raised = "HTTPError"
              /\ live.epoch >= 1 => live.detection.raised = "HTTPError"

\* C20 witness: Teku answers 400 to a query for three validators in epoch 2:
\* all three are reported live and the detection returns the empty set.
C20_BadRequestAllLive ==
    /\ live.pc = "done"
    /\ live.cl_client = "teku"
    /\ live.status = 400
    /\ live.epoch = 2
    /\ live.validators_index = {7, 9, 12}
    /\ live.call.requests = 1
    /\ live.detection.dead_indexes = {}

\* C29: process_missed_attestations returns the empty set, sends no
\* liveness request and no alert when the epoch is below 1;
\* process_paired_missed_attestations returns the empty set and sends no
\* alert when the epoch is below 2, whatever the dead sets are.
C29_EarlyEpochsAreSilent ==
    live.pc = "done" =>
        /\ live.epoch < 1 =>
              /\ live.detection = DetectionOut("", {}, None, FALSE, 0)
        /\ (live.epoch < 2 /\ live.paired.called) =>
              /\ live.paired.raised = ""
              /\ live.paired.double_dead_indexes = {}
              /\ ~live.paired.alerted /\ ~live.paired.printed

\* C29 witness: in epoch 1 the detection returns a dead validator that was
\* dead in the iteration before as well, and the paired analysis says
\* nothing.
C29_PairedSilentInEpochOne ==
    /\ live.pc = "done"
    /\ live.epoch = 1
    /\ live.paired.called
    /\ live.detection.dead_indexes \cap live.previous_dead # {}
    /\ live.paired.double_dead_indexes = {}
    /\ ~live.paired.alerted

-----------------------------------------------------------------------------
(* validators.py: ValidatorsExited and ValidatorsSlashed as the refresh of     *)
(* a new epoch calls them (SpecTrackers)                                       *)

MaxTrackerCalls == 2

\* the validators of the network
TrackedIndexes == {1, 2}

\* the statuses of a validator the trackers are fed with; a withdrawable
\* validator carries its slashed flag
ValidatorStatuses ==
    {"active_ongoing", "exited_unslashed", "exited_slashed",
     "withdrawal_unslashed", "withdrawal_slashed"}

\* ValidatorsExited.__init__: the remembered set is None
ExitedNew == [is_none |-> TRUE, own_exited_unslashed_indexes |-> {}]

\* a tracker that never takes itself for new
own_exited_is_none_never(t) == FALSE

\* if self.__own_exited_unslashed_indexes is None
own_exited_is_none(t) == t.is_none

\* a tracker that takes every exited index for a new one
own_new_exited_unslashed_indexes_all(current, remembered) == current

\* own_exited_unslashed_indexes - self.__own_exited_unslashed_indexes
own_new_exited_unslashed_indexes(current, remembered) == current \ remembered

\* ValidatorsExited.process on tracker t. exited_u: the indexes of the own
\* exited_unslashed map; wd_unslashed: the unslashed indexes of the own
\* withdrawal map; first: the index the loop over the new indexes visits first
ExitedProcess(t, exited_u, wd_unslashed, tg_ok, first) ==
    LET gauge == Cardinality(exited_u \cup wd_unslashed)
        remembered == [is_none |-> FALSE, own_exited_unslashed_indexes |-> exited_u]
        new == own_new_exited_unslashed_indexes(exited_u, t.own_exited_unslashed_indexes)
    IN  IF own_exited_is_none(t)
        THEN [tracker |-> remembered, gauge |-> gauge, raised |-> "",
              logged |-> {}, alerted |-> {}]
        ELSE IF new # {} /\ ~tg_ok
        THEN [tracker |-> t, gauge |-> gauge, raised |-> "TelegramError",
              logged |-> {first} \cap new, alerted |-> {}]
        ELSE [tracker |-> remembered, gauge |-> gauge, raised |-> "",
              logged |-> new, alerted |-> new]

\* the indexes of the validators of a status map with one of the statuses
WithStatus(st, statuses) == {i \in DOMAIN st : st[i] \in statuses}

NoTrackerOut == [raised |-> "", logged |-> {}, alerted |-> {}]

InitTrackers ==
    trk = [pc |-> "ready", calls |-> 0, exited |-> ExitedNew, slashed |-> SlashedNew,
           prev_exited |-> ExitedNew, st |-> [i \in TrackedIndexes |-> "active_ongoing"],
           own_keys |-> {}, tg_ok |-> TRUE, exited_gauge |-> 0,
           exited_out |-> NoTrackerOut, slashed_out |-> NoTrackerOut]

\* the part of the refresh that feeds the trackers: the own maps are the
\* network maps restricted to the own keys; exited_validators.process, then
\* slashed_validators.process; an exception of the first leaves the second
\* uncalled
RefreshTrackers ==
    /\ trk.pc = "ready"
    /\ trk.calls < MaxTrackerCalls
    /\ \E st \in [TrackedIndexes -> ValidatorStatuses], own_keys \in SUBSET TrackedIndexes,
          tg_ok \in BOOLEAN, first \in TrackedIndexes :
          LET own(statuses) == WithStatus(st, statuses) \cap own_keys
              e == ExitedProcess(trk.exited, own({"exited_unslashed"}),
                                 own({"withdrawal_unslashed"}), tg_ok, first)
              z == SlashedProcess(trk.slashed, WithStatus(st, {"exited_slashed"}),
                                  own({"exited_slashed"}),
                                  WithStatus(st, {"withdrawal_slashed"}),
                                  own({"withdrawal_slashed"}), tg_ok)
              called == e.raised = ""
          IN  /\ (tg_ok \/ first \in e.logged \/ e.raised = "")
              /\ trk' = [pc |-> IF e.raised # "" \/ z.raised # "" THEN "crashed" ELSE "ready",
                         calls |-> trk.calls + 1,
                         exited |-> e.tracker,
                         slashed |-> IF called THEN z.tracker ELSE trk.slashed,
                         prev_exited |-> trk.exited,
                         st |-> st, own_keys |-> own_keys, tg_ok |-> tg_ok,
                         exited_gauge |-> e.gauge,
                         exited_out |-> [raised |-> e.raised, logged |-> e.logged,
                                         alerted |-> e.alerted],
                         slashed_out |->
                             IF called
                             THEN [raised |-> z.raised, logged |-> z.logged,
                                   alerted |-> z.alerted]
                             ELSE NoTrackerOut]
    /\ UNCHANGED << engineVars, fin, relay, rew, sl, ld, att, live, cmp, fut, act, rfr, blk >>

InitTrackersCall ==
    InitTrackers /\ EngineOff /\ FinIdle /\ RelayIdle /\ RewIdle /\ SlIdle /\ LdIdle
        /\ AttIdle /\ LiveIdle /\ CmpIdle /\ FutIdle /\ ActIdle /\ RfrIdle /\ BlkIdle

SpecTrackers == InitTrackersCall /\ [][RefreshTrackers]_vars

\* the own indexes of the last call with one of the statuses
OwnWithStatus(statuses) == WithStatus(trk.st, statuses) \cap trk.own_keys

\* C24: the first call of ValidatorsExited.process and the first call of
\* ValidatorsSlashed.process remember the index sets passed in and emit no
\* alert and no log message, whatever the sets are.
C24_FirstCallPrimes ==
    trk.calls = 1 =>
        /\ trk.exited_out = NoTrackerOut
        /\ trk.exited = [is_none |-> FALSE,
                         own_exited_unslashed_indexes |-> OwnWithStatus({"exited_unslashed"})]
        /\ trk.slashed_out = NoTrackerOut
        /\ trk.slashed =
              [total_is_none |-> FALSE, own_is_none |-> FALSE,
               total_exited_slashed_indexes |-> WithStatus(trk.st, {"exited_slashed"}),
               own_exited_slashed_indexes |-> OwnWithStatus({"exited_slashed"})]

\* C24 witness: the first call with an own exited and an own slashed validator.
C24_PrimedWithExitedAndSlashed ==
    /\ trk.calls = 1
    /\ OwnWithStatus({"exited_unslashed"}) # {}
    /\ OwnWithStatus({"exited_slashed"}) # {}

\* C25: a call of ValidatorsExited.process after the first alerts exactly
\* the own exited_unslashed indexes that are not in the remembered set, once
\* each (the messenger being reachable); after every call the remembered set
\* is the exited_unslashed set passed in; the own_validators_exited gauge is
\* the size of exited_unslashed united with the unslashed withdrawable ones.
C25_ExitedAlertsNewIndexes ==
    (trk.calls >= 1 /\ trk.tg_ok) =>
        /\ trk.exited_out.raised = ""
        /\ trk.calls >= 2 =>
              trk.exited_out.alerted =
                  OwnWithStatus({"exited_unslashed"})
                      \ trk.prev_exited.own_exited_unslashed_indexes
        /\ trk.exited.own_exited_unslashed_indexes = OwnWithStatus({"exited_unslashed"})
        /\ trk.exited_gauge =
              Cardinality(OwnWithStatus({"exited_unslashed", "withdrawal_unslashed"}))

\* C25 witness: a second call alerts one index and passes over an index
\* that was remembered.
C25_OneNewExited ==
    /\ trk.calls = 2
    /\ trk.exited_out.alerted # {}
    /\ trk.exited_out.alerted # OwnWithStatus({"exited_unslashed"})


-----------------------------------------------------------------------------
(* activation_queue.py: compute_activation_duration (SpecActivation)           *)

MaxActivationCalls == 2
MaxActive == 13
MaxPending == 6

\* the configuration values the module reads: a scaled configuration and
\* the mainnet one
ActivationConfigs ==
    {[CHURN_LIMIT_QUOTIENT |-> 4, MAX_PER_EPOCH_ACTIVATION_CHURN_LIMIT |-> 2,
      SECONDS_PER_EPOCH |-> SECONDS_PER_SLOT * SLOTS_PER_EPOCH],
     [CHURN_LIMIT_QUOTIENT |-> 65536, MAX_PER_EPOCH_ACTIVATION_CHURN_LIMIT |-> 8,
      SECONDS_PER_EPOCH |-> 384]}

\* the validator counts a call is made with: len() of two maps
ActiveChoices(cfg) ==
    IF cfg.CHURN_LIMIT_QUOTIENT = 65536
    THEN {0, 65535, 65536, 131072, 500000, 524288, 600000}
    ELSE 0..MaxActive

PendingChoices(cfg) ==
    IF cfg.CHURN_LIMIT_QUOTIENT = 65536 THEN {0, 6, 7, 8, 1000, 1001} ELSE 0..MaxPending

Min(a, b) == IF a <= b THEN a ELSE b

\* a churn without the cap of the Dencun fork
get_activation_churn_uncapped(cfg, n_active_validators) ==
    n_active_validators \div cfg.CHURN_LIMIT_QUOTIENT

\* min(MAX_PER_EPOCH_ACTIVATION_CHURN_LIMIT, n_active_validators // CHURN_LIMIT_QUOTIENT)
get_activation_churn(cfg, n_active_validators) ==
    Min(cfg.MAX_PER_EPOCH_ACTIVATION_CHURN_LIMIT,
        n_active_validators \div cfg.CHURN_LIMIT_QUOTIENT)

\* int(a / b): the true quotient, truncated towards zero
int_of_quotient(a, b) ==
    IF (a >= 0) = (b > 0) THEN (IF a >= 0 THEN a ELSE -a) \div (IF b > 0 THEN b ELSE -b)
    ELSE -((IF a >= 0 THEN a ELSE -a) \div (IF b > 0 THEN b ELSE -b))

\* compute_activation_duration: the division raises for a churn of zero
compute_activation_duration(cfg, n_active_validators, n_pending_validators) ==
    LET activation_churn == get_activation_churn(cfg, n_active_validators)
    IN  IF activation_churn = 0
        THEN [raised |-> "ZeroDivisionError", duration |-> None]
        ELSE [raised |-> "",
              duration |-> int_of_quotient(n_pending_validators, activation_churn)
                               * cfg.SECONDS_PER_EPOCH]

NoActivationCall == [n_active |-> 0, n_pending |-> 0, raised |-> "", duration |-> None]

InitActivation ==
    \E cfg \in ActivationConfigs :
        act = [pc |-> "ready", calls |-> 0, cfg |-> cfg,
               call |-> NoActivationCall, previous |-> NoActivationCall]

\* one call of compute_activation_duration; the call before it is kept for
\* comparison
CallComputeActivationDuration ==
    /\ act.pc = "ready"
    /\ act.calls < MaxActivationCalls
    /\ \E n_active \in ActiveChoices(act.cfg), n_pending \in PendingChoices(act.cfg) :
          LET r == compute_activation_duration(act.cfg, n_active, n_pending)
          IN  act' = [act EXCEPT !.calls = @ + 1,
                                 !.previous = act.call,
                                 !.call = [n_active |-> n_active, n_pending |-> n_pending,
                                           raised |-> r.raised, duration |-> r.duration]]
    /\ UNCHANGED << engineVars, fin, relay, rew, sl, ld, att, live, trk, cmp, fut, rfr, blk >>

InitActivationCall ==
    InitActivation /\ EngineOff /\ FinIdle /\ RelayIdle /\ RewIdle /\ SlIdle /\ LdIdle
        /\ AttIdle /\ LiveIdle /\ TrkIdle /\ CmpIdle /\ FutIdle /\ RfrIdle /\ BlkIdle

SpecActivation == InitActivationCall /\ [][CallComputeActivationDuration]_vars

\* the churn of a call, as the configuration defines it
ChurnOf(c) ==
    Min(act.cfg.MAX_PER_EPOCH_ACTIVATION_CHURN_LIMIT,
        c.n_active \div act.cfg.CHURN_LIMIT_QUOTIENT)

\* C30: with a churn that is not zero compute_activation_duration returns
\* floor(n_pending / min(MAX_PER_EPOCH_ACTIVATION_CHURN_LIMIT,
\* floor(n_active / CHURN_LIMIT_QUOTIENT))) * SECONDS_PER_EPOCH; 500000
\* active and 1000 pending validators of the mainnet give 54528; of two calls
\* the one with more pending validators (the same active ones) returns no
\* less, the one with more active validators (the same pending ones) no more.
C30_ActivationDuration ==
    (act.calls >= 1 /\ ChurnOf(act.call) # 0) =>
        /\ act.call.raised = ""
        /\ act.call.duration =
              (act.call.n_pending \div ChurnOf(act.call)) * act.cfg.SECONDS_PER_EPOCH
        /\ (act.cfg.CHURN_LIMIT_QUOTIENT = 65536 /\ act.call.n_active = 500000
                /\ act.call.n_pending = 1000) => act.call.duration = 54528
        /\ (act.calls >= 2 /\ ChurnOf(act.previous) # 0) =>
              /\ (act.previous.n_active = act.call.n_active
                      /\ act.previous.n_pending <= act.call.n_pending)
                     => act.previous.duration <= act.call.duration
              /\ (act.previous.n_pending = act.call.n_pending
                      /\ act.previous.n_active <= act.call.n_active)
                     => act.previous.duration >= act.call.duration

\* C30 witness: the mainnet example after a call with fewer active
\* validators that took longer.
C30_MainnetExample ==
    /\ act.calls = 2
    /\ act.cfg.CHURN_LIMIT_QUOTIENT = 65536
    /\ act.call.n_active = 500000 /\ act.call.n_pending = 1000
    /\ act.call.duration = 54528
    /\ act.previous.n_pending = 1000 /\ act.previous.n_active < 500000
    /\ act.previous.raised = "" /\ act.previous.duration > 54528


-----------------------------------------------------------------------------
(* blocks.py: process_future_blocks_proposal, called slot after slot           *)
(* (SpecFuture)                                                                *)

MaxFutureSlot == 5

ProposerKeys == {"a", "b"}

\* the answers of get_proposer_duties(e) and get_proposer_duties(e + 1),
\* concatenated: one duty per slot of the two epochs; proposer[k] is the key
\* of the k-th of these slots
concatenated_data(e, proposer) ==
    [k \in 1..(2 * SLOTS_PER_EPOCH) |->
        [pubkey |-> proposer[k], slot |-> e * SLOTS_PER_EPOCH + k - 1]]

\* a filter that keeps the duties of the slots already gone
is_future_own_duty_any_slot(item, own_keys, s) == item.pubkey \in own_keys

\* if item.pubkey in own_pubkeys and item.slot >= slot
is_future_own_duty(item, own_keys, s) == item.pubkey \in own_keys /\ item.slot >= s

\* process_future_blocks_proposal. telegram: "none" (not configured), "ok" or
\* "down"; the message is sent before it is printed
process_future_blocks_proposal(node_ok, own_keys, s, new_epoch, telegram, proposer) ==
    LET data == concatenated_data(EpochOf(s), proposer)
        keep(item) == is_future_own_duty(item, own_keys, s)
        filtered == SelectSeq(data, keep)
        slots == [k \in 1..Len(filtered) |-> filtered[k].slot]
    IN  IF ~node_ok
        THEN [raised |-> "HTTPError", gauge |-> None, sent |-> << >>, printed |-> << >>]
        ELSE IF ~new_epoch
        THEN [raised |-> "", gauge |-> Len(filtered), sent |-> << >>, printed |-> << >>]
        ELSE IF telegram = "down" /\ Len(filtered) > 0
        THEN [raised |-> "TelegramError", gauge |-> Len(filtered), sent |-> << >>,
              printed |-> << >>]
        ELSE [raised |-> "", gauge |-> Len(filtered),
              sent |-> IF telegram = "ok" THEN slots ELSE << >>, printed |-> slots]

NoFutureOut == [raised |-> "", gauge |-> None, sent |-> << >>, printed |-> << >>]

InitFuture ==
    \E s \in 0..1, own_keys \in SUBSET ProposerKeys :
        fut = [pc |-> "ready", calls |-> 0, slot |-> s, previous_epoch |-> None,
               own_pubkeys |-> own_keys, is_new_epoch |-> FALSE, telegram |-> "none",
               proposer |-> [k \in 1..(2 * SLOTS_PER_EPOCH) |-> "a"], out |-> NoFutureOut]

\* the call of one iteration: fut.slot is the slot of the call made last,
\* once a call is made
CallProcessFutureBlocksProposal ==
    /\ fut.pc = "ready"
    /\ fut.calls = 0 \/ fut.slot < MaxFutureSlot
    /\ \E node_ok \in BOOLEAN, telegram \in {"none", "ok", "down"},
          proposer \in [1..(2 * SLOTS_PER_EPOCH) -> ProposerKeys] :
          LET s == IF fut.calls = 0 THEN fut.slot ELSE fut.slot + 1
              new_epoch == fut.previous_epoch = None \/ fut.previous_epoch # EpochOf(s)
              r == process_future_blocks_proposal(node_ok, fut.own_pubkeys, s, new_epoch,
                                                  telegram, proposer)
          IN  fut' = [fut EXCEPT !.pc = IF r.raised # "" THEN "crashed" ELSE "ready",
                                 !.calls = @ + 1,
                                 !.slot = s,
                                 !.previous_epoch = EpochOf(s),
                                 !.is_new_epoch = new_epoch,
                                 !.telegram = telegram,
                                 !.proposer = proposer,
                                 !.out = r]
    /\ UNCHANGED << engineVars, fin, relay, rew, sl, ld, att, live, trk, cmp, act, rfr, blk >>

InitFutureCall ==
    InitFuture /\ EngineOff /\ FinIdle /\ RelayIdle /\ RewIdle /\ SlIdle /\ LdIdle
        /\ AttIdle /\ LiveIdle /\ TrkIdle /\ CmpIdle /\ ActIdle /\ RfrIdle /\ BlkIdle

SpecFuture == InitFutureCall /\ [][CallProcessFutureBlocksProposal]_vars

\* the slots of the two epochs answered for, at or after the slot of the
\* call, whose proposer is an own key, in increasing order
CountedDuties ==
    LET first == EpochOf(fut.slot) * SLOTS_PER_EPOCH
        counted(k) == /\ first + k - 1 >= fut.slot
                      /\ fut.proposer[k] \in fut.own_pubkeys
        offsets == SelectSeq([k \in 1..(2 * SLOTS_PER_EPOCH) |-> k], counted)
    IN  [k \in 1..Len(offsets) |-> first + offsets[k] - 1]

\* C26: every call of process_future_blocks_proposal sets the
\* future_proposals gauge to the number of proposer duties of the epochs e and
\* e + 1 whose slot is not before the current slot and whose proposer is an own
\* key; the duties are alerted, exactly once each, in the calls of a new
\* epoch and in no other (the messenger being reachable).
C26_FutureProposals ==
    (fut.calls >= 1 /\ fut.out.raised = "") =>
        /\ fut.out.gauge = Len(CountedDuties)
        /\ fut.out.printed = (IF fut.is_new_epoch THEN CountedDuties ELSE << >>)
        /\ fut.out.sent =
              (IF fut.is_new_epoch /\ fut.telegram = "ok" THEN CountedDuties ELSE << >>)

\* C26 witness: a call in the middle of an epoch counts a duty of the next
\* epoch, passes over an own duty of a slot gone, and alerts nothing.
C26_CountedWithoutAlert ==
    /\ fut.calls >= 2 /\ fut.out.raised = "" /\ ~fut.is_new_epoch
    /\ fut.telegram = "ok"
    /\ fut.out.gauge = 1 /\ CountedDuties = << fut.slot + SLOTS_PER_EPOCH >>
    /\ fut.proposer[1] \in fut.own_pubkeys
    /\ fut.out.sent = << >>

-----------------------------------------------------------------------------
(* app.py and blocks.py: the alerts of process_future_blocks_proposal over a   *)
(* run, the proposer duties of the chain being what they are (SpecLookAhead)   *)

MaxLookAheadSlot == 5

\* the slots the node can be asked the proposer of
LookAheadSlots == 0..((EpochOf(MaxLookAheadSlot) + 2) * SLOTS_PER_EPOCH - 1)

\* the answers of get_proposer_duties(e) and get_proposer_duties(e + 1) of a
\* node that knows the proposer of every slot
proposer_of_epochs(schedule, e) ==
    [k \in 1..(2 * SLOTS_PER_EPOCH) |-> schedule[e * SLOTS_PER_EPOCH + k - 1]]

\* the duties a call has alerted: the slots printed, each with its proposer
AlertedDuties(printed, schedule) ==
    [k \in 1..Len(printed) |-> [slot |-> printed[k], pubkey |-> schedule[printed[k]]]]

InitLookAhead ==
    \E s \in 0..1 :
        fut \in [pc : {"ready"}, calls : {0}, slot : {s}, previous_epoch : {None},
                 own_pubkeys : SUBSET ProposerKeys,
                 schedule : [LookAheadSlots -> ProposerKeys],
                 alerted : {<< >>}, raised : {""}]

\* the call of one iteration, the own keys being the same all along;
\* alerted: the duties alerted so far in the run
CallLookAhead ==
    /\ fut.pc = "ready"
    /\ fut.calls = 0 \/ fut.slot < MaxLookAheadSlot
    /\ \E node_ok \in BOOLEAN, telegram \in {"none", "ok", "down"} :
          LET s == IF fut.calls = 0 THEN fut.slot ELSE fut.slot + 1
              is_new == fut.previous_epoch = None \/ fut.previous_epoch # EpochOf(s)
              r == process_future_blocks_proposal(
                       node_ok, fut.own_pubkeys, s, is_new, telegram,
                       proposer_of_epochs(fut.schedule, EpochOf(s)))
          IN  fut' = [fut EXCEPT !.pc = IF r.raised # "" THEN "crashed" ELSE "ready",
                                 !.calls = @ + 1,
                                 !.slot = s,
                                 !.previous_epoch = EpochOf(s),
                                 !.alerted = @ \o AlertedDuties(r.printed, fut.schedule),
                                 !.raised = r.raised]
    /\ UNCHANGED << engineVars, fin, relay, rew, sl, ld, att, live, trk, cmp, act, rfr, blk >>

InitLookAheadCall ==
    InitLookAhead /\ EngineOff /\ FinIdle /\ RelayIdle /\ RewIdle /\ SlIdle /\ LdIdle
        /\ AttIdle /\ LiveIdle /\ TrkIdle /\ CmpIdle /\ ActIdle /\ RfrIdle /\ BlkIdle

SpecLookAhead == InitLookAheadCall /\ [][CallLookAhead]_vars

\* C38: over a run with an unchanged own key set every own proposer duty
\* (slot, pubkey) is alerted by the look-ahead at most once.
C38_DutyAlertedOnce ==
    \A i, j \in 1..Len(fut.alerted) : i # j => fut.alerted[i] # fut.alerted[j]


-----------------------------------------------------------------------------
(* app.py: the data the refresh of a new epoch keeps (own keys, active        *)
(* snapshots, the two caches, the trackers) and the index sets the analyses    *)
(* of a slot read from it (SpecRefresh)                                        *)

MaxRefreshSlot == 11

\* LimitedDict(3) of both caches
SnapshotCacheSize == 3

\* the validators of the network
RefreshIndexes == {1, 2}

\* the statuses of the validators of the network the refresh tells apart
RefreshStatuses == {"active_ongoing", "exited_unslashed", "exited_slashed"}

\* a loop that takes every iteration for the first of an epoch
new_epoch_always(previous, e) == TRUE

\* is_new_epoch = previous_epoch is None or previous_epoch != epoch
new_epoch(previous, e) == previous = None \/ previous # e

\* net_active_idx2val: the validators of an active status
net_active(st) == WithStatus(st, {"active_ongoing"})

\* own validators taken without a look at their status
own_active_any_status(st, own_keys) == DOMAIN st \cap own_keys

\* own_active_idx2val: the active validators whose key is an own key (a
\* validator's key is written as its index)
own_active(st, own_keys) == WithStatus(st, {"active_ongoing"}) \cap own_keys

\* cache[e - 1] if e - 1 in cache else cache[e]: the epoch read
missed_attestations_epoch(cache, e) == IF e - 1 \in DOMAIN cache THEN e - 1 ELSE e

\* a comparison of rewards that reads the snapshot of the epoch before
rewards_epoch_previous(cache, e) == IF e - 1 \in DOMAIN cache THEN e - 1 ELSE e

\* cache[e - 2] if present, else cache[e - 1] if present, else cache[e]: the
\* epoch read
rewards_epoch(cache, e) ==
    IF e - 2 \in DOMAIN cache THEN e - 2
    ELSE IF e - 1 \in DOMAIN cache THEN e - 1 ELSE e

NotUsed == [used |-> FALSE, epoch |-> None, indexes |-> {}]

NoneUsed == [missed_attestations |-> NotUsed, rewards |-> NotUsed, attestations |-> NotUsed]

\* the data the claim is about, of the record r
KeptData(r) ==
    [own_pubkeys |-> r.own_pubkeys, own_active_idx2val |-> r.own_active_idx2val,
     own_epoch2active_idx2val |-> r.own_epoch2active_idx2val,
     net_epoch2active_idx2val |-> r.net_epoch2active_idx2val,
     exited |-> r.exited, slashed |-> r.slashed]

\* the first slot of the loop: the first of the chain, or a slot in the
\* middle of one of its first three epochs
RefreshStartSlots == {0, 1, SLOTS_PER_EPOCH + 1, 2 * SLOTS_PER_EPOCH + 1}

InitRefresh ==
    \E s \in RefreshStartSlots :
        rfr = [pc |-> "next", slot |-> s, epoch |-> None, previous_epoch |-> None,
               is_new_epoch |-> FALSE, iterations |-> 0,
               last_missed_attestations_process_epoch |-> None,
               last_rewards_process_epoch |-> None,
               own_pubkeys |-> {}, own_active_idx2val |-> {},
               own_epoch2active_idx2val |-> << >>, net_epoch2active_idx2val |-> << >>,
               exited |-> ExitedNew, slashed |-> SlashedNew,
               before |-> [own_pubkeys |-> {}, own_active_idx2val |-> {},
                           own_epoch2active_idx2val |-> << >>,
                           net_epoch2active_idx2val |-> << >>,
                           exited |-> ExitedNew, slashed |-> SlashedNew],
               refreshed |-> << >>, recorded |-> << >>, ran |-> << >>,
               used |-> NoneUsed, raised |-> ""]

\* the head of an iteration: the slot the generator yields, its epoch,
\* is_new_epoch
RefreshNextSlot ==
    /\ rfr.pc = "next"
    /\ rfr.iterations = 0 \/ rfr.slot < MaxRefreshSlot
    /\ LET s == IF rfr.iterations = 0 THEN rfr.slot ELSE rfr.slot + 1
       IN  rfr' = [rfr EXCEPT !.pc = "refresh",
                              !.slot = s,
                              !.epoch = EpochOf(s),
                              !.is_new_epoch = new_epoch(rfr.previous_epoch, EpochOf(s)),
                              !.iterations = @ + 1,
                              !.before = KeptData(rfr),
                              !.ran = << >>,
                              !.used = NoneUsed]
    /\ UNCHANGED << engineVars, fin, relay, rew, sl, ld, att, live, trk, cmp, fut, act, blk >>

\* if is_new_epoch: the own keys are read, the snapshots taken and cached,
\* the trackers called. recorded: what the refreshes of this epoch and of
\* the two epochs before it took, kept apart from the caches
RefreshNewEpoch ==
    /\ rfr.pc = "refresh"
    /\ rfr.is_new_epoch
    /\ \E own_keys \in SUBSET RefreshIndexes, st \in [RefreshIndexes -> RefreshStatuses],
          tg_ok \in BOOLEAN, first \in RefreshIndexes :
          LET e == rfr.epoch
              net == net_active(st)
              own == own_active(st, own_keys)
              x == ExitedProcess(rfr.exited,
                                 WithStatus(st, {"exited_unslashed"}) \cap own_keys,
                                 {}, tg_ok, first)
              z == SlashedProcess(rfr.slashed, WithStatus(st, {"exited_slashed"}),
                                  WithStatus(st, {"exited_slashed"}) \cap own_keys,
                                  {}, {}, tg_ok)
              exc == IF x.raised # "" THEN x.raised ELSE z.raised
          IN  /\ (tg_ok \/ first \in x.logged \/ x.raised = "")
              /\ rfr' = [rfr EXCEPT
                    !.pc = IF exc # "" THEN "crashed" ELSE "analyses",
                    !.raised = exc,
                    !.own_pubkeys = own_keys,
                    !.own_active_idx2val = own,
                    !.net_epoch2active_idx2val = setitem(@, SnapshotCacheSize, e, net),
                    !.own_epoch2active_idx2val = setitem(@, SnapshotCacheSize, e, own),
                    !.exited = x.tracker,
                    !.slashed = IF x.raised = "" THEN z.tracker ELSE @,
                    !.refreshed = Append(@, e),
                    !.recorded = [k \in (DOMAIN @ \cup {e}) \cap {e - 2, e - 1, e} |->
                                     IF k = e THEN [own |-> own, net |-> net] ELSE @[k]],
                    !.ran = Append(@, "refresh")]
    /\ UNCHANGED << engineVars, fin, relay, rew, sl, ld, att, live, trk, cmp, fut, act, blk >>

\* an iteration of an epoch already seen
RefreshSkipped ==
    /\ rfr.pc = "refresh"
    /\ ~rfr.is_new_epoch
    /\ rfr' = [rfr EXCEPT !.pc = "analyses"]
    /\ UNCHANGED << engineVars, fin, relay, rew, sl, ld, att, live, trk, cmp, fut, act, blk >>

\* the analyses of the slot, in the order of the loop, and the own index
\* set each works on: process_missed_attestations, process_rewards (the own
\* part, reached with a network snapshot that is not empty),
\* process_attestations (with a block of the slot)
RefreshAnalyses ==
    /\ rfr.pc = "analyses"
    /\ \E has_block \in BOOLEAN :
          LET e == rfr.epoch
              own_cache == rfr.own_epoch2active_idx2val
              net_cache == rfr.net_epoch2active_idx2val
              in_epoch == rfr.slot % SLOTS_PER_EPOCH
              missed == /\ in_epoch >= SLOT_FOR_MISSED_ATTESTATIONS_PROCESS
                        /\ new_epoch(rfr.last_missed_attestations_process_epoch, e)
              rewards == /\ in_epoch >= SLOT_FOR_REWARDS_PROCESS
                         /\ new_epoch(rfr.last_rewards_process_epoch, e)
              me == missed_attestations_epoch(own_cache, e)
              re == rewards_epoch(own_cache, e)
          IN  rfr' = [rfr EXCEPT
                    !.pc = "tail",
                    !.last_missed_attestations_process_epoch = IF missed THEN e ELSE @,
                    !.last_rewards_process_epoch = IF rewards THEN e ELSE @,
                    !.used =
                        [missed_attestations |->
                             IF missed /\ e >= 1
                             THEN [used |-> TRUE, epoch |-> me, indexes |-> own_cache[me]]
                             ELSE NotUsed,
                         rewards |->
                             IF rewards /\ ~is_before_rewards(e)
                                 /\ net_cache[rewards_epoch(net_cache, e)] # {}
                             THEN [used |-> TRUE, epoch |-> re, indexes |-> own_cache[re]]
                             ELSE NotUsed,
                         attestations |->
                             IF has_block
                             THEN [used |-> TRUE, epoch |-> e,
                                   indexes |-> rfr.own_active_idx2val]
                             ELSE NotUsed],
                    !.ran = @ \o (IF missed THEN << "missed_attestations" >> ELSE << >>)
                              \o (IF rewards THEN << "rewards" >> ELSE << >>)
                              \o (IF has_block THEN << "attestations" >> ELSE << >>)]
    /\ UNCHANGED << engineVars, fin, relay, rew, sl, ld, att, live, trk, cmp, fut, act, blk >>

\* previous_epoch = epoch
RefreshLoopEnd ==
    /\ rfr.pc = "tail"
    /\ rfr' = [rfr EXCEPT !.pc = "next", !.previous_epoch = rfr.epoch]
    /\ UNCHANGED << engineVars, fin, relay, rew, sl, ld, att, live, trk, cmp, fut, act, blk >>

InitRefreshCall ==
    InitRefresh /\ EngineOff /\ FinIdle /\ RelayIdle /\ RewIdle /\ SlIdle /\ LdIdle
        /\ AttIdle /\ LiveIdle /\ TrkIdle /\ CmpIdle /\ FutIdle /\ ActIdle /\ BlkIdle

NextRefresh ==
    \/ RefreshNextSlot
    \/ RefreshNewEpoch
    \/ RefreshSkipped
    \/ RefreshAnalyses
    \/ RefreshLoopEnd

SpecRefresh == InitRefreshCall /\ [][NextRefresh]_vars

\* the steps of the iteration at hand that have run
RefreshRan == {rfr.ran[k] : k \in 1..Len(rfr.ran)}

\* the iteration at hand is the first one, or its epoch is not the epoch of
\* the iteration before it
EpochChanged == rfr.iterations = 1 \/ rfr.previous_epoch # rfr.epoch

\* C27: the own key set, the own and network active snapshots, the two
\* caches and the remembered sets of both trackers are at the end of an
\* iteration what they were at its start, unless the iteration is the first
\* one or its epoch differs from the epoch of the iteration before; the
\* refresh runs once for every epoch observed, and before the analyses of
\* the slot.
C27_RefreshOncePerEpoch ==
    rfr.pc \in {"analyses", "tail", "crashed"} =>
        /\ ~EpochChanged => KeptData(rfr) = rfr.before
        /\ EpochChanged <=> "refresh" \in RefreshRan
        /\ "refresh" \in RefreshRan => rfr.ran[1] = "refresh"
        /\ Len(rfr.refreshed) = rfr.epoch - rfr.refreshed[1] + 1
        /\ \A k \in 1..Len(rfr.refreshed) : rfr.refreshed[k] = rfr.refreshed[1] + k - 1

\* C27 witness: an iteration in the middle of the third epoch observed ends
\* with the data of the refresh untouched, the analyses having run.
C27_KeptThroughEpoch ==
    /\ rfr.pc = "tail" /\ ~EpochChanged
    /\ Len(rfr.refreshed) = 3
    /\ rfr.own_pubkeys # {} /\ rfr.own_active_idx2val # {}
    /\ ~rfr.exited.is_none /\ rfr.exited.own_exited_unslashed_indexes # {}
    /\ rfr.ran = << "rewards", "attestations" >>
    /\ KeptData(rfr) = rfr.before

\* the index set an analysis worked on is the own snapshot recorded for the
\* epoch of the slot or one of the two epochs before it, and lies within the
\* network snapshot recorded for that epoch
FromRecordedSnapshot(u) ==
    u.used =>
        \E x \in {rfr.epoch - 2, rfr.epoch - 1, rfr.epoch} \cap DOMAIN rfr.recorded :
            /\ u.indexes = rfr.recorded[x].own
            /\ u.indexes \subseteq rfr.recorded[x].net

\* C28: at every slot the own index set of the inclusion analysis, of the
\* detection of missed attestations and of the comparison of rewards is the
\* own active snapshot recorded for the epoch of the slot or one of the two
\* epochs before it, and a subset of the network active snapshot recorded for
\* that epoch.
C28_OwnSetsFromSnapshots ==
    rfr.pc = "tail" =>
        /\ FromRecordedSnapshot(rfr.used.missed_attestations)
        /\ FromRecordedSnapshot(rfr.used.rewards)
        /\ FromRecordedSnapshot(rfr.used.attestations)

\* C28 witness: in the fourth epoch observed the comparison of rewards and
\* the inclusion analysis of one slot work on two snapshots that differ, the
\* oldest snapshot being out of the cache.
C28_TwoSnapshotsUsed ==
    /\ rfr.pc = "tail"
    /\ Len(rfr.refreshed) = 4
    /\ rfr.used.rewards.used /\ rfr.used.rewards.epoch = rfr.epoch - 2
    /\ rfr.used.attestations.used
    /\ rfr.used.rewards.indexes # {}
    /\ rfr.used.attestations.indexes # {}
    /\ rfr.used.rewards.indexes # rfr.used.attestations.indexes
    /\ rfr.epoch - 3 \notin DOMAIN rfr.own_epoch2active_idx2val


\* the epoch keys of a cache
CacheEpochs(cache) == DOMAIN cache

\* C34: whenever the detection of missed attestations or the comparison of
\* rewards runs at a slot of epoch E both caches hold the key E, so the
\* fallback chain of either finds a snapshot and never fails on a missing key;
\* and the two caches hold the same set of epoch keys in every state.
C34_CurrentEpochCached ==
    /\ CacheEpochs(rfr.own_epoch2active_idx2val) = CacheEpochs(rfr.net_epoch2active_idx2val)
    /\ rfr.pc \in {"analyses", "tail"} =>
          /\ rfr.epoch \in CacheEpochs(rfr.own_epoch2active_idx2val)
          /\ rfr.epoch \in CacheEpochs(rfr.net_epoch2active_idx2val)
          /\ rfr.used.missed_attestations.used =>
                rfr.used.missed_attestations.epoch \in CacheEpochs(rfr.own_epoch2active_idx2val)
          /\ rfr.used.rewards.used =>
                rfr.used.rewards.epoch \in CacheEpochs(rfr.net_epoch2active_idx2val)

\* C34 witness: a loop started in the middle of epoch 1 runs the detection
\* in that epoch; the snapshot of epoch 0 was never taken and the chain ends
\* at the snapshot of epoch 1.
C34_FallbackEndsAtCurrentEpoch ==
    /\ rfr.pc = "tail"
    /\ rfr.epoch >= 1
    /\ Len(rfr.refreshed) = 1
    /\ rfr.used.missed_attestations.used
    /\ rfr.used.missed_attestations.epoch = rfr.epoch
    /\ rfr.used.missed_attestations.indexes # {}

\* C35: once the loop has processed a slot in each of the epochs E - 2, E - 1
\* and E both caches hold exactly the keys E - 2, E - 1, E, the comparison of
\* rewards at E reads the snapshots of E - 2 and the detection of missed
\* attestations at E reads the snapshot of E - 1; an older or newer snapshot is
\* read in their place only in the first two epochs after the start.
C35_SteadyStateSnapshots ==
    rfr.pc \in {"analyses", "tail"} =>
        /\ Len(rfr.refreshed) >= 3 =>
              /\ CacheEpochs(rfr.own_epoch2active_idx2val)
                    = {rfr.epoch - 2, rfr.epoch - 1, rfr.epoch}
              /\ CacheEpochs(rfr.net_epoch2active_idx2val)
                    = {rfr.epoch - 2, rfr.epoch - 1, rfr.epoch}
              /\ rfr.used.rewards.used => rfr.used.rewards.epoch = rfr.epoch - 2
              /\ rfr.used.missed_attestations.used
                    => rfr.used.missed_attestations.epoch = rfr.epoch - 1
        /\ (rfr.used.rewards.used /\ rfr.used.rewards.epoch # rfr.epoch - 2)
              => Len(rfr.refreshed) <= 2
        /\ (rfr.used.missed_attestations.used
                /\ rfr.used.missed_attestations.epoch # rfr.epoch - 1)
              => Len(rfr.refreshed) <= 2

\* C35 witness: a loop started in epoch 1 compares the rewards in epoch 3
\* with the snapshot of epoch 1, the caches holding the epochs 1, 2 and 3.
C35_ThirdEpochReadsFirst ==
    /\ rfr.pc = "tail"
    /\ rfr.refreshed = << 1, 2, 3 >>
    /\ rfr.used.rewards.used
    /\ rfr.used.rewards.epoch = 1
    /\ rfr.used.rewards.indexes # {}
    /\ CacheEpochs(rfr.own_epoch2active_idx2val) = {1, 2, 3}


-----------------------------------------------------------------------------
(* rewards.py: the network part of process_rewards, from the answer of the     *)
(* rewards endpoint to the three rates (SpecCompare)                           *)

MaxCompared == 3

ComparedIndexes == 1..MaxCompared

EffectiveBalances == {16, 32}

\* data.ideal_rewards as effective_balance2possible_reward holds it
IdealRewards == [b \in EffectiveBalances |->
                    IF b = 32 THEN << 14000, 13000, 7500 >> ELSE << 7000, 6500, 3750 >>]

\* the (source, target, head) a validator can have earned
TotalRewardChoices ==
    { << 14000, 13000, 7500 >>, << 14000, 12999, 7500 >>, << 7000, 6500, 3750 >>,
      << -7000, -6500, 0 >> }

\* a lookup of the ideal reward of the largest balance, whatever the validator
possible_reward_largest(table, effective_balance) == table[32]

\* effective_balance2possible_reward[validator.effective_balance]
possible_reward(table, effective_balance) == table[effective_balance]

\* _compare_rewards
compare_rewards(pubkey, possible, earned) ==
    [pubkey |-> pubkey, possible_reward |-> possible, earned_reward |-> earned,
     are_rewards_maximum |-> [k \in 1..3 |-> earned[k] = possible[k]]]

RECURSIVE SumItems(_, _, _, _)
\* sum() over one component of one field of the items of the indexes S
SumItems(S, items, field, k) ==
    IF S = {} THEN 0
    ELSE LET i == CHOOSE x \in S : TRUE
         IN  items[i][field][k] + SumItems(S \ {i}, items, field, k)

NoComparison ==
    [raised |-> "", compared |-> {}, items |-> << >>,
     rates |-> [k \in 1..3 |-> NoFraction], possible |-> << >>,
     rewards |-> << >>, penalties |-> << >>]

\* the network part of process_rewards after get_rewards: balances is the
\* effective balance of every validator of the snapshot, total the earned
\* reward of every validator of the answer. Unpacking zip(*items) of no item
\* raises ValueError
network_rewards(balances, ideal, total) ==
    LET compared == DOMAIN balances \cap DOMAIN total
        items == [i \in compared |->
                     compare_rewards(i, possible_reward(ideal, balances[i]), total[i])]
        n == Cardinality(compared)
        n_max(k) == Cardinality({i \in compared : items[i].are_rewards_maximum[k]})
        earned(k) == SumItems(compared, items, "earned_reward", k)
    IN  IF compared = {} THEN [NoComparison EXCEPT !.raised = "ValueError"]
        ELSE [raised |-> "", compared |-> compared, items |-> items,
              rates |-> [k \in 1..3 |-> Fraction(n_max(k), n)],
              possible |-> [k \in 1..3 |-> SumItems(compared, items, "possible_reward", k)],
              rewards |-> [k \in 1..3 |-> IF k = 3 \/ earned(k) >= 0 THEN earned(k) ELSE 0],
              penalties |-> [k \in 1..2 |-> IF earned(k) < 0 THEN 0 - earned(k) ELSE 0]]

\* the snapshots of the network that are not empty
BalanceTables ==
    UNION { [S -> EffectiveBalances] : S \in (SUBSET ComparedIndexes) \ { {} } }

TotalRewardTables == UNION { [S -> TotalRewardChoices] : S \in SUBSET ComparedIndexes }

InitCompare ==
    \E balances \in BalanceTables, total \in TotalRewardTables :
        cmp = [pc |-> "call", balances |-> balances, total |-> total, out |-> NoComparison]

CallNetworkRewards ==
    /\ cmp.pc = "call"
    /\ cmp' = [cmp EXCEPT !.pc = "done",
                          !.out = network_rewards(cmp.balances, IdealRewards, cmp.total)]
    /\ UNCHANGED << engineVars, fin, relay, rew, sl, ld, att, live, trk, fut, act, rfr, blk >>

InitCompareCall ==
    InitCompare /\ EngineOff /\ FinIdle /\ RelayIdle /\ RewIdle /\ SlIdle /\ LdIdle
        /\ AttIdle /\ LiveIdle /\ TrkIdle /\ FutIdle /\ ActIdle /\ RfrIdle /\ BlkIdle

SpecCompare == InitCompareCall /\ [][CallNetworkRewards]_vars

\* the validators of the snapshot the answer holds a reward for
Compared == DOMAIN cmp.balances \cap DOMAIN cmp.total

\* validator i earned the ideal reward of its effective balance in component k
EarnedIdeal(i, k) == cmp.total[i][k] = IdealRewards[cmp.balances[i]][k]

\* C23: for every compared validator the source, target and head flag is
\* true exactly when the earned component equals the ideal component of the
\* validator's effective balance; every rate is the number of compared
\* validators whose flag is true over the number of compared validators; an
\* ideal reward (14000, 13000, 7500) and an earned one (14000, 12999, 7500)
\* give the flags (true, false, true).
C23_FlagsAndRates ==
    (cmp.pc = "done" /\ Compared # {}) =>
        /\ cmp.out.raised = ""
        /\ cmp.out.compared = Compared
        /\ \A i \in Compared, k \in 1..3 :
              cmp.out.items[i].are_rewards_maximum[k] <=> EarnedIdeal(i, k)
        /\ \A k \in 1..3 :
              cmp.out.rates[k] =
                  Fraction(Cardinality({i \in Compared : EarnedIdeal(i, k)}),
                           Cardinality(Compared))
        /\ \A i \in Compared :
              (cmp.balances[i] = 32 /\ cmp.total[i] = << 14000, 12999, 7500 >>)
                  => cmp.out.items[i].are_rewards_maximum = << TRUE, FALSE, TRUE >>

\* C23 witness: validators of both balances are compared; one of balance 32
\* earned (14000, 12999, 7500), one of balance 16 its ideal reward; a
\* validator of the snapshot without a reward in the answer is left out.
C23_MixedBalancesCompared ==
    /\ cmp.pc = "done"
    /\ Cardinality(Compared) = 2
    /\ DOMAIN cmp.balances # Compared
    /\ \E i, j \in Compared :
          /\ cmp.balances[i] = 32 /\ cmp.total[i] = << 14000, 12999, 7500 >>
          /\ cmp.balances[j] = 16 /\ cmp.total[j] = << 7000, 6500, 3750 >>
    /\ cmp.out.rates = << Fraction(2, 2), Fraction(1, 2), Fraction(2, 2) >>


-----------------------------------------------------------------------------
(* cl_node.py: get_block, get_header, get_potential_block, and what the loop  *)
(* and the finalized reconciliation do with a block that is not there         *)
(* (SpecBlockFetch)                                                            *)

\* the HTTP status the node keeps answering a block or header request with
BlockStatuses == {200, 404, 500, 503}

\* the slot asked for
FetchSlots == {4, 5}

\* the adapter retries 502 and 503 three times and then gives up
is_retried(status) == status \in {502, 503}

\* a handler that knows no missing block
is_not_found_never(status) == FALSE

\* if e.response.status_code == codes.not_found
is_not_found(status) == status = 404

\* self.__get(...), response.raise_for_status() and the except clause that
\* get_header and get_block share; RetryError is no HTTPError and passes the
\* clause untouched
fetch(status, s) ==
    IF is_retried(status) THEN [raised |-> "RetryError", value |-> None]
    ELSE IF ~raise_for_status(status) THEN [raised |-> "", value |-> s]
    ELSE IF is_not_found(status) THEN [raised |-> "NoBlockError", value |-> None]
    ELSE [raised |-> "HTTPError", value |-> None]

\* ConsensusNode.get_header(slot)
get_header(status, s) == fetch(status, s)

\* ConsensusNode.get_block(slot)
get_block(status, s) == fetch(status, s)

\* ConsensusNode.get_potential_block(slot): None on NoBlockError
potential_block_of(status, s) ==
    LET r == get_block(status, s)
    IN  IF r.raised = "NoBlockError" THEN [raised |-> "", value |-> None] ELSE r

\* the iteration from the fetch of the block to the head detection: the step
\* taken after the fetch and the outcome of process_missed_blocks_head (not
\* reached when the fetch raises)
after_fetch(status, s, is_own, tg_ok) ==
    LET b == potential_block_of(status, s)
        own == IF is_own THEN {s} ELSE {}
    IN  IF b.raised # ""
        THEN [raised |-> b.raised, to |-> "crashed", alerted |-> FALSE, inc |-> 0]
        ELSE LET h == process_missed_blocks_head(b.value, s, own, tg_ok)
             IN  [raised |-> h.raised, to |-> AfterBlockFetch(b.value),
                  alerted |-> h.alerted, inc |-> h.inc]

\* the round of the loop of process_missed_blocks_finalized for slot s of an
\* own proposer: cl_node.get_header(slot_) in try / except NoBlockError
reconcile_slot(status, s, reward, tg_ok) ==
    LET h == get_header(status, s)
    IN  IF h.raised \notin {"", "NoBlockError"}
        THEN [FinalizedStart EXCEPT !.raised = h.raised, !.examined = << s >>]
        ELSE FinalizedLoop(s, s, reward, {s},
                           IF h.raised = "NoBlockError" THEN {s} ELSE {},
                           tg_ok, FinalizedStart)

NoFetch == [raised |-> "", value |-> None]

InitBlockFetch ==
    \E block_status \in BlockStatuses, header_status \in BlockStatuses,
       s \in FetchSlots, is_own \in BOOLEAN, tg_ok \in BOOLEAN :
        blk = [pc |-> "call", block_status |-> block_status,
               header_status |-> header_status, slot |-> s, is_own |-> is_own,
               tg_ok |-> tg_ok, block |-> NoFetch, header |-> NoFetch,
               potential_block |-> NoFetch,
               head |-> [raised |-> "", to |-> "", alerted |-> FALSE, inc |-> 0],
               finalized |-> FinalizedStart]

CallFetchBlock ==
    /\ blk.pc = "call"
    /\ blk' = [blk EXCEPT
                  !.pc = "done",
                  !.block = get_block(blk.block_status, blk.slot),
                  !.header = get_header(blk.header_status, blk.slot),
                  !.potential_block = potential_block_of(blk.block_status, blk.slot),
                  !.head = after_fetch(blk.block_status, blk.slot, blk.is_own, blk.tg_ok),
                  !.finalized = reconcile_slot(blk.header_status, blk.slot,
                                               ZeroReward(blk.slot), blk.tg_ok)]
    /\ UNCHANGED << engineVars, fin, relay, rew, sl, ld, att, live, trk, cmp, fut, act, rfr >>

InitBlockFetchCall ==
    InitBlockFetch /\ EngineOff /\ FinIdle /\ RelayIdle /\ RewIdle /\ SlIdle /\ LdIdle
        /\ AttIdle /\ LiveIdle /\ TrkIdle /\ CmpIdle /\ FutIdle /\ ActIdle /\ RfrIdle

SpecBlockFetch == InitBlockFetchCall /\ [][CallFetchBlock]_vars

\* C33: get_header and get_block turn HTTP 404 into NoBlockError and let
\* every other HTTP error out as an error; get_potential_block returns None
\* exactly when NoBlockError is raised; a 404 for the block of the current
\* slot takes the iteration to the head detection (an alert and one count for
\* an own proposer) and not to its end; a 404 for the header of a finalized
\* slot of an own proposer gives the 'missed' outcome (the messenger being
\* reachable).
C33_NotFoundIsNoBlock ==
    blk.pc = "done" =>
        /\ (blk.block_status = 404) <=> (blk.block.raised = "NoBlockError")
        /\ (blk.header_status = 404) <=> (blk.header.raised = "NoBlockError")
        /\ blk.block_status \notin {200, 404} =>
              /\ blk.block.raised \in {"HTTPError", "RetryError"}
              /\ blk.potential_block.raised = blk.block.raised
        /\ blk.header_status \notin {200, 404} =>
              /\ blk.header.raised \in {"HTTPError", "RetryError"}
              /\ blk.finalized.raised = blk.header.raised
        /\ (blk.potential_block.raised = "" /\ blk.potential_block.value = None)
              <=> (blk.block.raised = "NoBlockError")
        /\ (blk.block_status = 404 /\ blk.tg_ok) =>
              /\ blk.head.raised = ""
              /\ blk.head.to = "head"
              /\ blk.head.alerted = blk.is_own
              /\ blk.head.inc = (IF blk.is_own THEN 1 ELSE 0)
        /\ (blk.header_status = 404 /\ blk.tg_ok) =>
              /\ blk.finalized.raised = ""
              /\ blk.finalized.n_missed = 1
              /\ blk.finalized.messages = << MissedMessage(blk.slot) >>

\* C33 witness: the node has neither the block nor the header of the slot of
\* an own proposer: the head detection alerts and the reconciliation reports
\* the slot as missed.
C33_MissingBlockHandled ==
    /\ blk.pc = "done"
    /\ blk.block_status = 404 /\ blk.header_status = 404
    /\ blk.is_own /\ blk.tg_ok
    /\ blk.potential_block = [raised |-> "", value |-> None]
    /\ blk.head.alerted /\ blk.head.to = "head"
    /\ blk.finalized.n_missed = 1


=============================================================================
